---- MODULE Spec2Model ----
(***************************************************************************)
(* Offer-lifecycle engine of deno-steam-trader: the DataPoller             *)
(* reconciliation loop (data_poller.ts, the last version held in           *)
(* src/unnamed/part_006, lines 832-1468), the PollData store it keeps and  *)
(* TradeOffer.send (src/src/trade_offer.ts).                               *)
(*                                                                         *)
(* JavaScript runs one callback at a time: code between two awaits is one  *)
(* atomic step.  Every action below is one such run-to-suspension stretch  *)
(* of a handler; the remote services, the wall clock and the user are the  *)
(* environment.                                                            *)
(***************************************************************************)
EXTENDS Integers, Sequences, FiniteSets, Bags, TLC

(***************************************************************************)
(* Program constants                                                       *)
(***************************************************************************)
\* data_poller.ts: const miminumPollInterval = 1000
miminumPollInterval == 1000

\* data_poller.ts: the 30-minute buffer, in seconds ("offersSince - 1800",
\* "Date.now() / 1000 - 1800")
HistoricalBuffer == 1800

\* confirmation_service.ts:55: request() resets localOffset when it is above this
MaxLocalOffset == 500

\* trade_offer.ts:136: msg.toString().substring(0, 128)
MessageLimit == 128

\* trade_offer.ts:23-27
NON_TERMINAL_OFFER_STATES == {"Accepted", "CreatedNeedsConfirmation", "InEscrow"}

(***************************************************************************)
(* Bounds of the model                                                     *)
(***************************************************************************)
\* doPoll() invocations explored in one behaviour
MaxCalls == 3
\* clock advances explored in one behaviour
MaxAdvance == 2

\* Date.now() at construction, in seconds and in milliseconds
StartSec == 10000
StartMs == StartSec * 1000
\* ages (seconds, at the start of the run) of the offers of the universes
\* "aged" and "quota", and the times (milliseconds) they are compared with
YoungAge == 20
OldAge == 50
AgeLimit == 30000
YoungLimit == 20000
LongLimit == 90000
\* how long before the start of the run (seconds) an offer made earlier was
\* last updated: more than the buffer of getOffers
Backdate == 2000

\* TradeOffer objects the user creates with createOffer() and may send()
OfferObjs == {"o1"}
\* the id the remote assigns to the offer created by a send()
IdOfSend(o) == "X"
SendIds == {IdOfSend(o) : o \in OfferObjs}
\* sent offers in the order the remote lists them ("F" is made outside this
\* library), and offers received
SentSeq == <<"X", "F">>
RecvSeq == <<"R">>
SentIds == {SentSeq[i] : i \in 1..Len(SentSeq)}
RecvIds == {RecvSeq[i] : i \in 1..Len(RecvSeq)}

NoId == "undefined"

\* what the mutators of a TradeOffer are called with: messages (by length),
\* tokens, lists of items; an item without appid, contextid or assetid; the
\* item removeTheirItems names itself (trade_offer.ts:617)
MessageLengths == {1, MessageLimit + 1}
Tokens == {"t1"}
InvalidItem == "invalid"
LeftoverItem == "313/2/1213"
ItemLists == {<<>>, <<"i1">>, <<"i1", InvalidItem>>}
\* the longest list of items an offer gets on one side
MaxItems == 1

\* a polling interval longer than the time a run covers, in ms
LongInterval == 3000

\* the calls of ConfirmationService.getConfirmations (by cancelAllConfirmations
\* or findOrGetConfirmation) and the lists the conf endpoint may answer
Callers == {"a", "b", "c"}
ConfLists == {<<>>, <<"k1">>, <<"k1", "k2">>}
\* the callers of allowOffer, cancelOffer and cancelAllConfirmations, and the
\* offers allowOffer and cancelOffer are called with
Operators == {"a", "b"}
ConfOffers == {"X", "F"}
\* localOffset of a service that has derived this many keys since its last reset
NearReset == 500
Absent == [state |-> "Absent"]

VARIABLES
    now,                    \* Date.now(), milliseconds
    cfg,                    \* TradeManagerOptions / DataPollerOptions and the environment's universe
    remote,                 \* the offer table GetTradeOffers answered last
    created,                \* ids the remote has assigned to offers sent by this library
    pollData,               \* DataPoller.pollData
    polling,                \* DataPoller.polling
    stopped,                \* DataPoller.stopped
    defferedPoll,           \* DataPoller.defferedPoll: "undefined" | "pending" | "fulfilled"
    lastPoll,               \* DataPoller.lastPoll
    loadedPollData,         \* DataPoller.loadedPollData
    timers,                 \* due times of the armed setTimeout(doPoll) callbacks
    tick,                   \* the doPoll() invocation that passed the polling guard
    stopCall,               \* a stop() invocation: "idle" | "awaiting" | "returned"
    pendingSendOffersCount, \* TradeManager.pendingSendOffersCount
    offers,                 \* the TradeOffer objects
    calls,                  \* history: doPoll() invocations so far
    inflight,               \* history: doPoll() invocations between the guard and finally
    tickEv,                 \* history: events posted by the current (or last) tick, in order
    walk,                   \* history: what the last walk saw
    hist,                   \* history: events over the whole behaviour
    cancelOps,              \* the cancellations the walks started and that have not settled
    cancelEv,               \* events posted by the cancellation that settled last
    conf                    \* the ConfirmationService and the calls of getConfirmations

vars == <<now, cfg, remote, created, pollData, polling, stopped, defferedPoll, lastPoll,
          loadedPollData, timers, tick, stopCall, pendingSendOffersCount, offers,
          calls, inflight, tickEv, walk, hist, cancelOps, cancelEv, conf>>

(***************************************************************************)
(* JavaScript objects used as maps: Record<string, number>                 *)
(***************************************************************************)
EmptyMap == <<>>
Has(m, k) == k \in DOMAIN m
Put(m, k, v) == [x \in (DOMAIN m) \cup {k} |-> IF x = k THEN v ELSE m[x]]
Del(m, k) == [x \in (DOMAIN m) \ {k} |-> m[x]]
\* Object.assign(target, source)
ObjectAssign(target, source) ==
    [x \in (DOMAIN target) \cup (DOMAIN source) |->
        IF x \in DOMAIN source THEN source[x] ELSE target[x]]

\* Math.floor(ms / 1000)
FloorSec(ms) == ms \div 1000

(***************************************************************************)
(* Events posted on manager.evt: <<name, offer id, previous state>>        *)
(* ("debug" events are not recorded)                                       *)
(***************************************************************************)
Ev(name, id) == <<name, id, "-">>
EvPrev(name, id, prev) == <<name, id, prev>>
Count(seq, e) == Cardinality({i \in 1..Len(seq) : seq[i] = e})
Named(seq, name) == {i \in 1..Len(seq) : seq[i][1] = name}

(***************************************************************************)
(* trade_offer.ts                                                          *)
(***************************************************************************)
\* a faulty variant: one that takes a bare state number for an offer
isNonTerminalStateOfNumber(arg) ==
    IF arg.state \in NON_TERMINAL_OFFER_STATES THEN "true" ELSE "false"

\* isNonTerminalState(offer: Offer | TradeOffer), trade_offer.ts:29-35.
\* Its first statement is `"trade_offer_state" in offer`: JavaScript's `in`
\* raises TypeError when its right operand is not an object.
isNonTerminalState(arg) ==
    IF ~arg.isObject THEN "TypeError"
    ELSE IF arg.state \in NON_TERMINAL_OFFER_STATES THEN "true" ELSE "false"

\* an Offer / TradeOffer object, and a bare state number, as arguments
AsObject(state) == [isObject |-> TRUE, state |-> state]
AsNumber(state) == [isObject |-> FALSE, state |-> state]

\* TradeOffer.isGlitched, trade_offer.ts:147-167 (offers of a response have an id).
\* items: "none" (both sides empty), "unnamed" (an item has no name), "named"
isGlitched(offer, getDescriptions) ==
    \/ offer.items = "none"
    \/ getDescriptions /\ offer.items = "unnamed"

(***************************************************************************)
(* data_poller.ts: the store                                               *)
(***************************************************************************)
\* the constructor's pollData, data_poller.ts:907-914
EmptyPollData ==
    [sent |-> EmptyMap, received |-> EmptyMap, timestamps |-> EmptyMap,
     offersSince |-> 0, cancelTimes |-> EmptyMap, pendingCancelTimes |-> EmptyMap]

\* data_poller.ts:938-941
deleteTimeProps(pd, offerid) ==
    [pd EXCEPT !.cancelTimes = Del(@, offerid), !.pendingCancelTimes = Del(@, offerid)]

\* data_poller.ts:943-948
deleteOldProps(pd, offerid) ==
    [deleteTimeProps(pd, offerid) EXCEPT
        !.sent = Del(@, offerid), !.received = Del(@, offerid),
        !.timestamps = Del(@, offerid)]

\* a faulty variant: a prune that looks at the state only
pruneOfferEntryAnyAge(r, offerid, offerState) ==
    IF r.threw \/ offerState \in NON_TERMINAL_OFFER_STATES THEN r
    ELSE [r EXCEPT !.pd = deleteOldProps(r.pd, offerid)]

\* data_poller.ts:950-966.  r = [threw, pd].  The entry's second component is
\* the stored state, a number, and line 955 hands it to isNonTerminalState.
pruneOfferEntry(r, offerid, offerState) ==
    IF r.threw THEN r
    ELSE LET nonTerminal == isNonTerminalState(AsNumber(offerState))
             pd == r.pd
         IN  IF nonTerminal = "TypeError" THEN [r EXCEPT !.threw = TRUE]
             ELSE IF \/ nonTerminal = "true"
                     \/ /\ Has(pd.timestamps, offerid)
                        /\ pd.timestamps[offerid] # 0
                        /\ pd.offersSince - HistoricalBuffer < pd.timestamps[offerid]
                  THEN r
                  ELSE [r EXCEPT !.pd = deleteOldProps(pd, offerid)]

\* Object.entries(m).forEach(entry => pruneOfferEntry(entry)), over a snapshot of m
RECURSIVE PruneEntries(_, _, _)
PruneEntries(r, m, ids) ==
    IF ids = {} THEN r
    ELSE LET id == CHOOSE x \in ids : TRUE
         IN  PruneEntries(pruneOfferEntry(r, id, m[id]), m, ids \ {id})

\* data_poller.ts:968-975: received first, then sent
tryDeleteOldProps(pd) ==
    LET r1 == PruneEntries([threw |-> FALSE, pd |-> pd], pd.received, DOMAIN pd.received)
    IN  PruneEntries(r1, r1.pd.sent, DOMAIN r1.pd.sent)

\* a faulty variant: a merge in which the loaded entries win
MergeLoadedFirst(loadedData, pd) ==
    [loadedData EXCEPT
        !.received = ObjectAssign(pd.received, @),
        !.sent = ObjectAssign(pd.sent, @),
        !.timestamps = ObjectAssign(pd.timestamps, @)]

\* data_poller.ts:1347-1353: merge current data into the loaded data, then replace
MergeLoaded(loadedData, pd) ==
    [loadedData EXCEPT
        !.received = ObjectAssign(@, pd.received),
        !.sent = ObjectAssign(@, pd.sent),
        !.timestamps = ObjectAssign(@, pd.timestamps)]

(***************************************************************************)
(* data_poller.ts: DataPoller.doPoll, the walk over a response             *)
(* w = [pd, ev, glitched, cancels, targets]: the store, the events posted  *)
(* so far, hasGlitchedOffer, the cancellations started, and the entries    *)
(* allActive[0..cancelThisMany-1] of the quota trim                        *)
(***************************************************************************)
\* data_poller.ts:1054-1070: the events of an unknown real-time trade offer
RealTimeUnknownSent(id, offer) ==
    IF ~offer.fromRealTimeTrade THEN <<>>
    ELSE IF \/ offer.state = "CreatedNeedsConfirmation"
            \/ offer.state = "Active" /\ offer.confirmationMethod # "None"
         THEN <<Ev("realTimeTradeConfirmationRequired", id)>>
         ELSE IF offer.state = "Accepted"
              THEN <<Ev("realTimeTradeCompleted", id)>>
              ELSE <<>>

(***************************************************************************)
(* Faulty variants of the walk, which the properties at the end of the     *)
(* module must tell from the code                                          *)
(***************************************************************************)
\* the sent-offer diff that posts sentOfferChanged and keeps the old record
SentOfferDiffKeepsRecord(w, id, offer, pending, getDescriptions) ==
    IF ~Has(w.pd.sent, id)
    THEN IF pending = 0
         THEN [w EXCEPT
                !.ev = @ \o RealTimeUnknownSent(id, offer) \o <<Ev("unknownOfferSent", id)>>,
                !.pd.sent = Put(@, id, offer.state),
                !.pd.timestamps = Put(@, id, offer.updated)]
         ELSE w
    ELSE IF offer.state # w.pd.sent[id]
         THEN IF ~isGlitched(offer, getDescriptions)
              THEN [w EXCEPT
                     !.ev = @ \o <<EvPrev("sentOfferChanged", id, w.pd.sent[id])>>]
              ELSE [w EXCEPT !.glitched = TRUE]
         ELSE w

\* the sent-offer diff that does not look at pendingSendOffersCount
SentOfferDiffAnyPending(w, id, offer, pending, getDescriptions) ==
    IF ~Has(w.pd.sent, id)
    THEN [w EXCEPT
           !.ev = @ \o RealTimeUnknownSent(id, offer) \o <<Ev("unknownOfferSent", id)>>,
           !.pd.sent = Put(@, id, offer.state),
           !.pd.timestamps = Put(@, id, offer.updated)]
    ELSE IF offer.state # w.pd.sent[id]
         THEN IF ~isGlitched(offer, getDescriptions)
              THEN [w EXCEPT
                     !.ev = @ \o <<EvPrev("sentOfferChanged", id, w.pd.sent[id])>>,
                     !.pd.sent = Put(@, id, offer.state),
                     !.pd.timestamps = Put(@, id, offer.updated)]
              ELSE [w EXCEPT !.glitched = TRUE]
         ELSE w

\* the received-offer step that posts receivedOfferChanged and keeps the old record
ReceivedOfferKeepsRecord(w, id, offer, getDescriptions) ==
    IF isGlitched(offer, getDescriptions) THEN [w EXCEPT !.glitched = TRUE]
    ELSE IF ~Has(w.pd.received, id)
         THEN [w EXCEPT
                !.ev = @ \o (IF offer.state = "Active" THEN <<Ev("newOffer", id)>> ELSE <<>>),
                !.pd.received = Put(@, id, offer.state),
                !.pd.timestamps = Put(@, id, offer.updated)]
         ELSE IF offer.state # w.pd.received[id]
              THEN [w EXCEPT
                     !.ev = @ \o <<EvPrev("receivedOfferChanged", id, w.pd.received[id])>>]
              ELSE w

\* data_poller.ts:1048-1110: the diff of one sent offer against pollData.sent.
\* pending is manager.pendingSendOffersCount.
SentOfferDiff(w, id, offer, pending, getDescriptions) ==
    IF ~Has(w.pd.sent, id)
    THEN IF pending = 0
         THEN [w EXCEPT
                !.ev = @ \o RealTimeUnknownSent(id, offer) \o <<Ev("unknownOfferSent", id)>>,
                !.pd.sent = Put(@, id, offer.state),
                !.pd.timestamps = Put(@, id, offer.updated)]
         ELSE w
    ELSE IF offer.state # w.pd.sent[id]
         THEN IF ~isGlitched(offer, getDescriptions)
              THEN [w EXCEPT
                     !.ev = @ \o (IF offer.fromRealTimeTrade /\ offer.state = "Accepted"
                                  THEN <<Ev("realTimeTradeCompleted", id)>> ELSE <<>>)
                              \o <<EvPrev("sentOfferChanged", id, w.pd.sent[id])>>,
                     !.pd.sent = Put(@, id, offer.state),
                     !.pd.timestamps = Put(@, id, offer.updated)]
              ELSE [w EXCEPT !.glitched = TRUE]
         ELSE w

\* a faulty variant: the auto-cancel that takes the manager's times whatever
\* the store holds for the offer
SentOfferAutoCancelManagerTimes(w, id, offer, nowMs, mgr) ==
    LET active == /\ offer.state = "Active"
                  /\ mgr.cancelTime # 0
                  /\ nowMs - offer.updated * 1000 >= mgr.cancelTime
        unconfirmed == /\ offer.state = "CreatedNeedsConfirmation"
                       /\ mgr.pendingCancelTime # 0
                       /\ nowMs - offer.created * 1000 >= mgr.pendingCancelTime
    IN  [w EXCEPT !.cancels = @ \o (IF active THEN <<<<id, "cancelTime">>>> ELSE <<>>)
                               \o (IF unconfirmed THEN <<<<id, "pending">>>> ELSE <<>>)]

\* data_poller.ts:1112-1170: age-based auto-cancel of one sent offer.  A time of
\* 0 stands for undefined; offer.updated and offer.created are in seconds.
SentOfferAutoCancel(w, id, offer, nowMs, mgr) ==
    LET cancelTime == IF Has(w.pd.cancelTimes, id)
                      THEN w.pd.cancelTimes[id] ELSE mgr.cancelTime
        pendingCancelTime == IF Has(w.pd.pendingCancelTimes, id)
                             THEN w.pd.pendingCancelTimes[id] ELSE mgr.pendingCancelTime
        active == /\ offer.state = "Active"
                  /\ cancelTime # 0
                  /\ nowMs - offer.updated * 1000 >= cancelTime
        unconfirmed == /\ offer.state = "CreatedNeedsConfirmation"
                       /\ pendingCancelTime # 0
                       /\ nowMs - offer.created * 1000 >= pendingCancelTime
    IN  [w EXCEPT !.cancels = @ \o (IF active THEN <<<<id, "cancelTime">>>> ELSE <<>>)
                               \o (IF unconfirmed THEN <<<<id, "pending">>>> ELSE <<>>)]

\* data_poller.ts:1036-1171: apiresp.sentOffers.forEach
RECURSIVE SentWalk(_, _, _, _, _, _)
SentWalk(w, ids, resp, pending, nowMs, mgr) ==
    IF ids = <<>> THEN w
    ELSE LET id == Head(ids)
             w1 == SentOfferDiff(w, id, resp[id], pending, mgr.getDescriptions)
             w2 == SentOfferAutoCancel(w1, id, resp[id], nowMs, mgr)
         IN  SentWalk(w2, Tail(ids), resp, pending, nowMs, mgr)

\* utils.ts:3-10
fastConcat(a, b) == a \o b

\* Object.entries(pollData.sent): offer ids are integer-like keys, which come in
\* ascending order; SentSeq lists the ids in that order
RECURSIVE Entries(_, _)
Entries(m, ids) ==
    IF ids = <<>> THEN <<>>
    ELSE (IF Has(m, Head(ids)) THEN <<<<Head(ids), m[Head(ids)]>>>> ELSE <<>>)
         \o Entries(m, Tail(ids))

\* apiresp.sentOffers.filter(...).map(offer => [offer.id, offer.state])
RECURSIVE SentActive(_, _)
SentActive(ids, resp) ==
    IF ids = <<>> THEN <<>>
    ELSE (IF resp[Head(ids)].state = "Active"
          THEN <<<<Head(ids), resp[Head(ids)].state>>>> ELSE <<>>)
         \o SentActive(Tail(ids), resp)

\* Array.prototype.sort with the comparator of lines 1190-1196 (a stable sort by
\* pollData.timestamps, ascending); every entry sorted has a timestamp
RECURSIVE SortByTimestamp(_, _)
SortByTimestamp(entries, timestamps) ==
    IF entries = <<>> THEN <<>>
    ELSE LET sorted == SortByTimestamp(SubSeq(entries, 1, Len(entries) - 1), timestamps)
             last == entries[Len(entries)]
             keep == {i \in 1..Len(sorted) :
                        timestamps[sorted[i][1]] <= timestamps[last[1]]}
             k == Cardinality(keep)
         IN  SubSeq(sorted, 1, k) \o <<last>> \o SubSeq(sorted, k + 1, Len(sorted))

\* data_poller.ts:1199-1206: the min-age floor; a cancelOfferCountMinAge of 0 is
\* not set.  Date.now() is in milliseconds; pollData.timestamps holds the
\* seconds written by the walk
QuotaMinAgeSkips(nowMs, timestamp, minAge) ==
    minAge # 0 /\ nowMs - timestamp < minAge

\* data_poller.ts:1197-1226: the ids TradeOffer.fromOfferId is called with
RECURSIVE QuotaTargets(_, _, _, _, _, _)
QuotaTargets(allActive, i, cancelThisMany, nowMs, timestamps, minAge) ==
    IF i > cancelThisMany THEN <<>>
    ELSE (IF i <= Len(allActive)
             /\ ~QuotaMinAgeSkips(nowMs, timestamps[allActive[i][1]], minAge)
          THEN <<<<allActive[i][1], "cancelOfferCount">>>> ELSE <<>>)
         \o QuotaTargets(allActive, i + 1, cancelThisMany, nowMs, timestamps, minAge)

\* data_poller.ts:1173-1228: the quota trim after the walk of the sent offers
QuotaTrim(w, ids, resp, nowMs, mgr) ==
    IF mgr.cancelOfferCount = 0 THEN w
    ELSE LET sentActive == SentActive(ids, resp)
             polledSentActive == SelectSeq(Entries(w.pd.sent, SentSeq),
                                           LAMBDA e : e[2] = "Active")
             allActive == fastConcat(sentActive, polledSentActive)
         IN  IF Len(allActive) >= mgr.cancelOfferCount
             THEN LET cancelThisMany == Len(allActive) - mgr.cancelOfferCount
                      sorted == SortByTimestamp(allActive, w.pd.timestamps)
                  IN  [w EXCEPT
                         !.targets = [i \in 1..cancelThisMany |-> sorted[i][1]],
                         !.cancels = @ \o
                            QuotaTargets(sorted, 1, cancelThisMany, nowMs,
                                         w.pd.timestamps, mgr.cancelOfferCountMinAge)]
             ELSE w

\* data_poller.ts:1242-1283: one received offer
ReceivedOffer(w, id, offer, getDescriptions) ==
    IF isGlitched(offer, getDescriptions) THEN [w EXCEPT !.glitched = TRUE]
    ELSE LET known == Has(w.pd.received, id)
             realTime ==
                IF ~offer.fromRealTimeTrade THEN <<>>
                ELSE IF /\ ~known
                        /\ \/ offer.state = "CreatedNeedsConfirmation"
                           \/ offer.state = "Active" /\ offer.confirmationMethod # "None"
                     THEN <<Ev("realTimeTradeConfirmationRequired", id)>>
                     ELSE IF /\ offer.state = "Accepted"
                             /\ (~known \/ w.pd.received[id] # offer.state)
                          THEN <<Ev("realTimeTradeCompleted", id)>>
                          ELSE <<>>
             change ==
                IF ~known /\ offer.state = "Active" THEN <<Ev("newOffer", id)>>
                ELSE IF known /\ offer.state # w.pd.received[id]
                     THEN <<EvPrev("receivedOfferChanged", id, w.pd.received[id])>>
                     ELSE <<>>
         IN  [w EXCEPT !.ev = @ \o realTime \o change,
                       !.pd.received = Put(@, id, offer.state),
                       !.pd.timestamps = Put(@, id, offer.updated)]

\* data_poller.ts:1230-1283: apiresp.receivedOffers.forEach
RECURSIVE ReceivedWalk(_, _, _, _)
ReceivedWalk(w, ids, resp, getDescriptions) ==
    IF ids = <<>> THEN w
    ELSE ReceivedWalk(ReceivedOffer(w, Head(ids), resp[Head(ids)], getDescriptions),
                      Tail(ids), resp, getDescriptions)

\* data_poller.ts:1421-1444, 1458-1460: getOffers' oldestNonTerminal, the least
\* time_updated among the returned offers in a non-terminal state; 0 is undefined
OldestNonTerminal(resp, ids) ==
    LET nt == {id \in ids : isNonTerminalState(AsObject(resp[id].state)) = "true"}
    IN  IF nt = {} THEN 0
        ELSE LET m == CHOOSE x \in nt : \A y \in nt : resp[x].updated <= resp[y].updated
             IN  resp[m].updated

\* a faulty variant: the cutoff step that takes oldestNonTerminal even when
\* getOffers found none
AdvanceCutoffToOldest(pd, hasGlitchedOffer, oldestNonTerminal, requestedAt) ==
    IF hasGlitchedOffer THEN pd
    ELSE IF oldestNonTerminal < requestedAt
         THEN [pd EXCEPT !.offersSince = oldestNonTerminal]
         ELSE [pd EXCEPT !.offersSince = requestedAt]

\* a faulty variant: the cutoff step that does not look at hasGlitchedOffer
AdvanceCutoffAlways(pd, hasGlitchedOffer, oldestNonTerminal, requestedAt) ==
    IF oldestNonTerminal # 0 /\ oldestNonTerminal < requestedAt
    THEN [pd EXCEPT !.offersSince = oldestNonTerminal]
    ELSE [pd EXCEPT !.offersSince = requestedAt]

\* a faulty variant: the cutoff step that takes the time of the request always
AdvanceCutoffToRequest(pd, hasGlitchedOffer, oldestNonTerminal, requestedAt) ==
    IF hasGlitchedOffer THEN pd ELSE [pd EXCEPT !.offersSince = requestedAt]

\* data_poller.ts:1290-1299
AdvanceCutoff(pd, hasGlitchedOffer, oldestNonTerminal, requestedAt) ==
    IF hasGlitchedOffer THEN pd
    ELSE IF oldestNonTerminal # 0 /\ oldestNonTerminal < requestedAt
         THEN [pd EXCEPT !.offersSince = oldestNonTerminal]
         ELSE [pd EXCEPT !.offersSince = requestedAt]

\* the offers of a response, in the order listed: those the remote holds
RECURSIVE Listed(_, _)
Listed(ids, table) ==
    IF ids = <<>> THEN <<>>
    ELSE (IF table[Head(ids)] = Absent THEN <<>> ELSE <<Head(ids)>>) \o Listed(Tail(ids), table)

(***************************************************************************)
(* The environment's universe                                              *)
(***************************************************************************)
Shape(state, updated, items, realTime) ==
    [state |-> state, updated |-> updated, created |-> updated, items |-> items,
     fromRealTimeTrade |-> realTime, confirmationMethod |-> "None"]

\* offers sent some time before the run started.  In universe "aged" X was last
\* updated (or created, awaiting confirmation) YoungAge seconds before, and F
\* OldAge seconds before; in universe "quota" both are Active
AgedShapes(universe, id) ==
    IF id \in SendIds
    THEN {Shape("Active", StartSec - YoungAge, "named", FALSE)}
         \cup (IF universe = "aged"
               THEN {Shape("CreatedNeedsConfirmation", StartSec - YoungAge, "named", FALSE)}
               ELSE {})
    ELSE {Shape("Active", StartSec - OldAge, "named", FALSE)}

\* what the remote may hold for an offer id: in universe "sent" the account
\* sends offers with this library, in universe "foreign" it sends them by other
\* means, in universe "received" it receives them; in universe "mixed" it
\* sends offers with this library, which GetTradeOffers does not list yet, and
\* has an older one made by other means
Shapes(universe, id) ==
    IF universe = "sent" /\ id \in SendIds
    THEN {Shape("Active", StartSec, "named", FALSE),
          Shape("CreatedNeedsConfirmation", StartSec, "named", FALSE),
          Shape("Accepted", StartSec, "named", FALSE),
          Shape("Accepted", StartSec, "none", FALSE)}
    ELSE IF universe = "mixed" /\ id \in SentIds \ SendIds
    \* an offer made by other means before the run, still awaiting confirmation
    THEN {Shape("CreatedNeedsConfirmation", StartSec - Backdate, "named", FALSE)}
    ELSE IF universe = "foreign" /\ id \in SentIds \ SendIds
         THEN {Shape("Active", StartSec, "named", FALSE),
               Shape("Accepted", StartSec, "named", TRUE)}
         ELSE IF universe = "received" /\ id \in RecvIds
              THEN {Shape("Active", StartSec, "named", FALSE),
                    Shape("Declined", StartSec, "named", FALSE),
                    Shape("Declined", StartSec, "none", FALSE)}
              ELSE IF universe \in {"aged", "quota"} /\ id \in SentIds
                   THEN AgedShapes(universe, id)
                   ELSE IF universe = "stale" /\ id \in (SentIds \ SendIds) \cup RecvIds
                        \* offers made long before the run and still Active
                        THEN {Shape("Active", StartSec - 2 * Backdate, "named", FALSE),
                              Shape("Active", StartSec, "named", FALSE)}
                        ELSE {}

\* what loadPollData may return: data saved by an earlier run, with an offer
\* recorded long before this run started
LoadedData(universe) ==
    IF universe = "aged"
    THEN \* both offers recorded Active; F may live longer than the manager's
         \* cancelTime and X shorter, unconfirmed or not
         [sent |-> [x \in SentIds |-> "Active"],
          received |-> EmptyMap,
          timestamps |-> [x \in SentIds |-> StartSec - OldAge],
          offersSince |-> StartSec - 2 * HistoricalBuffer,
          cancelTimes |-> [x \in SentIds |-> IF x \in SendIds THEN YoungLimit ELSE LongLimit],
          pendingCancelTimes |-> [x \in SendIds |-> YoungLimit]]
    ELSE IF universe = "reload"
    THEN \* the saved data holds every offer, the one this run sends included
         \* (saved by another process of the account), with times of its own
         [sent |-> [x \in SentIds |-> "CreatedNeedsConfirmation"],
          received |-> [x \in RecvIds |-> "Declined"],
          timestamps |-> [x \in SentIds \cup RecvIds |-> StartSec - 2 * Backdate],
          offersSince |-> StartSec - 2 * HistoricalBuffer,
          cancelTimes |-> [x \in SentIds \ SendIds |-> LongLimit],
          pendingCancelTimes |-> EmptyMap]
    ELSE
    [sent |-> [x \in (IF universe = "foreign" THEN {"F"} ELSE {}) |-> "Active"],
     received |-> [x \in (IF universe = "received" THEN {"R"} ELSE {}) |-> "Declined"],
     timestamps |-> [x \in (IF universe = "foreign" THEN {"F"}
                            ELSE IF universe = "received" THEN {"R"} ELSE {}) |->
                       StartSec - 2 * Backdate],
     offersSince |-> StartSec - 2 * HistoricalBuffer,
     cancelTimes |-> EmptyMap, pendingCancelTimes |-> EmptyMap]

\* the options the manager is constructed with (a time of 0: not set), and the
\* environment of the run: the universe, the step of the clock, and who drives
\* the library: an "operator" calls start() and stop(), a "trader" makes offers
\* and sends them
Config(interval, persist, ready, universe, user) ==
    [interval |-> interval, persist |-> persist, ready |-> ready,
     getDescriptions |-> FALSE, cancelTime |-> 0, pendingCancelTime |-> 0,
     cancelOfferCount |-> 0, cancelOfferCountMinAge |-> 0,
     step |-> 500, universe |-> universe, user |-> user]

\* configurations with the automatic cancellations on: by age (cancelTime,
\* pendingCancelTime) and by count (cancelOfferCount, cancelOfferCountMinAge)
CancelConfigs ==
    {[Config(-1, TRUE, TRUE, "aged", "owner") EXCEPT
        !.cancelTime = AgeLimit, !.pendingCancelTime = AgeLimit],
     [Config(-1, FALSE, TRUE, "quota", "owner") EXCEPT
        !.cancelOfferCount = 1, !.cancelOfferCountMinAge = AgeLimit]}

CoreConfigs ==
    {Config(-1, FALSE, TRUE, "sent", "trader"),
     Config(-1, FALSE, TRUE, "mixed", "trader"),
     Config(1000, FALSE, TRUE, "received", "operator"),
     Config(1000, FALSE, TRUE, "foreign", "operator"),
     Config(1000, TRUE, TRUE, "received", "operator"),
     Config(-1, FALSE, TRUE, "received", "operator"),
     Config(1000, FALSE, FALSE, "received", "operator")}

\* what the send endpoint may answer once the transport delivered a response:
\* a status other than 200, a body with strError, or a body with these fields;
\* made: the remote created the offer
SendResponses(o, made) ==
    IF made
    THEN {[kind |-> "ok", tradeofferid |-> IdOfSend(o), mobile |-> m, email |-> e] :
            m \in BOOLEAN, e \in BOOLEAN}
    ELSE {[kind |-> k, tradeofferid |-> NoId, mobile |-> FALSE, email |-> FALSE] :
            k \in {"status", "strError"}}
         \cup {[kind |-> "ok", tradeofferid |-> NoId, mobile |-> m, email |-> e] :
                 m \in BOOLEAN, e \in BOOLEAN}

\* the outcome of the last call of a mutator and of decline() / cancel() on a
\* TradeOffer, before any was made
\* the response of a send() that parsed none
NoResponse == [kind |-> "none", tradeofferid |-> NoId, mobile |-> FALSE, email |-> FALSE]

NoMutation == [method |-> "none", items |-> <<>>, threw |-> FALSE]
NoDecline == [status |-> "none", endpoint |-> "none"]

\* the bodies the accept endpoint may answer with status 200 and no strError
\* (needs_mobile_confirmation, needs_email_confirmation), and the offers
\* GetTradeOffer may answer update() with
AcceptBodies == {[mobile |-> m, email |-> e] : m \in BOOLEAN, e \in BOOLEAN}
RefreshedOffers ==
    {[trade_offer_state |-> st, confirmation_method |-> cm] :
        st \in {"Active", "Accepted", "InEscrow"}, cm \in {"None", "MobileApp"}}

\* the outcome of the last accept() on a TradeOffer, before any was made.
\* skip: skipStateUpdate; returned: the value returned; body, data: the body of
\* the accept endpoint and the offer of GetTradeOffer the call got;
\* remoteCalls: the requests the call made
NoAccept ==
    [status |-> "none", skip |-> FALSE, returned |-> "none",
     body |-> [mobile |-> FALSE, email |-> FALSE],
     data |-> [trade_offer_state |-> "Invalid", confirmation_method |-> "None"],
     remoteCalls |-> 0]

\* trade_offer.ts:84-116, trade_manager.ts:183-186: a TradeOffer made by
\* createOffer(), which sets isOurOffer after the constructor.  message: its
\* length; pc: where its send() or decline() is; made: the remote created an
\* offer for the send() in flight; result: what the last send() did; resp: the
\* response the last send() parsed; ours: this account made the offer; mutation,
\* declined, accepted: what the last mutator call, the last decline() and the
\* last accept() did.  partner is set by the constructor or by _update (lines
\* 91-108, 172-174) on every offer
NewOffer ==
    [id |-> NoId, state |-> "Invalid", confirmationMethod |-> "None",
     itemsToGive |-> <<>>, itemsToReceive |-> <<>>, message |-> 0, token |-> "undefined",
     isOurOffer |-> "true", cancelTime |-> 0, pendingCancelTime |-> 0,
     pc |-> "idle", made |-> FALSE, result |-> "none", resp |-> NoResponse,
     ours |-> TRUE, mutation |-> NoMutation, declined |-> NoDecline,
     accepted |-> NoAccept]

IdleTick ==
    \* offersSince: pollData.offersSince when doPoll was entered
    [pc |-> "idle", src |-> "-", doingPollTooFast |-> FALSE, timeSinceLastPoll |-> 0,
     doFullUpdate |-> FALSE, fullUpdate |-> FALSE, requestedAt |-> 0, offersSince |-> 0]

\* history of the last walk.  done: the current (or last) tick walked a response;
\* pending: pendingSendOffersCount during the walk; unknown: the sent offers of
\* the response that had no record; changedSent, changedReceived: the offers
\* <<id, recorded state>> of the response, not glitched, whose record differed;
\* same: the response equals the one walked before; sendBetween: a send()
\* wrote pollData.sent since the walk before; glitched: hasGlitchedOffer at the
\* end of the walk; cutoffBefore: pollData.offersSince when the response arrived;
\* started: the cancellations the walk started, <<id, why>> in order; targets:
\* the offers the quota trim picked before its min-age floor; evBefore: cancelEv
\* when the response arrived
NoWalk ==
    [done |-> FALSE, pending |-> 0, unknown |-> {}, changedSent |-> {},
     changedReceived |-> {}, same |-> FALSE, walked |-> FALSE, sendBetween |-> FALSE,
     glitched |-> FALSE, cutoffBefore |-> 0, started |-> <<>>, targets |-> <<>>,
     evBefore |-> <<>>]

\* history of the behaviour.  unknownSent: ids of the unknownOfferSent events;
\* triples: <<id, previous, current>> of the sentOfferChanged events; dup: one
\* of them was posted twice; sendRecorded: a send() wrote pollData.sent since
\* the last walk; skipped: a doPoll() call returned at the polling guard;
\* cutoff: pollData.offersSince when the last tick posted pollSuccess (0: none did);
\* fetchedAt: Date.now() when the last getOffers request was made (0: none was)
NoHist ==
    [unknownSent |-> {}, triples |-> {}, dup |-> FALSE, sendRecorded |-> FALSE,
     skipped |-> FALSE, cutoff |-> 0, fetchedAt |-> 0]

\* confirmation_service.ts:32-45: a ConfirmationService as constructed, and the
\* calls made on it.  deffer: retrieveConfirmationsDeffer, the caller whose call
\* made the Deferred; resolved: the Deferreds resolved; pc, awaits: where each
\* call is and the Deferred it awaits; queue: the calls awaiting, in the order
\* they began to; time: the time each call took for its key; call: the public
\* method each caller called, and whether lastConfirmationList held the offer
\* then.  History: requested: the calls that sent the conf request; fetches:
\* how many each sent; succeeded: the calls whose conf request was answered and
\* parsed; returned: the calls of getConfirmations that returned; observed:
\* lastConfirmationList as each found it on return, or "threw"; error: the error a public call failed with;
\* derived: the key derivations, in order; sent: the requests sent, in order
NoCall == [kind |-> "none", offerid |-> NoId, operation |-> "-", found |-> FALSE]

NewConfirmationService ==
    [lastConfirmationList |-> <<>>,
     localOffset |-> 0,
     deffer |-> "undefined",
     resolved |-> {},
     pc |-> [c \in Callers |-> "idle"],
     awaits |-> [c \in Callers |-> "undefined"],
     queue |-> <<>>,
     time |-> [c \in Callers |-> 0],
     call |-> [c \in Callers |-> NoCall],
     requested |-> {},
     fetches |-> [c \in Callers |-> 0],
     succeeded |-> {},
     returned |-> {},
     observed |-> [c \in Callers |-> "none"],
     error |-> [c \in Callers |-> "none"],
     derived |-> <<>>,
     sent |-> <<>>]

InitOf(configs, services, held) ==
    /\ now = StartMs
    /\ cfg \in configs
    /\ remote = [id \in SentIds \cup RecvIds |-> Absent]
    \* in the universes "aged" and "quota" an earlier run sent the offers
    /\ created = IF cfg.universe \in {"aged", "quota"} THEN SendIds ELSE {}
    /\ pollData = EmptyPollData
    /\ polling = FALSE
    /\ stopped = FALSE
    /\ defferedPoll = "undefined"
    /\ lastPoll = 0
    /\ loadedPollData = FALSE
    /\ timers = <<>>
    /\ tick = IdleTick
    /\ stopCall = "idle"
    /\ pendingSendOffersCount = 0
    /\ offers \in [OfferObjs -> held]
    /\ calls = 0
    /\ inflight = 0
    /\ tickEv = <<>>
    /\ walk = NoWalk
    /\ hist = NoHist
    /\ cancelOps = EmptyBag
    /\ cancelEv = <<>>
    /\ conf \in services

InitWith(configs) == InitOf(configs, {NewConfirmationService}, {NewOffer})

Init == InitWith(CoreConfigs)

(***************************************************************************)
(* data_poller.ts: DataPoller.doPoll, start, stop                          *)
(***************************************************************************)
RemoveAt(seq, i) == SubSeq(seq, 1, i - 1) \o SubSeq(seq, i + 1, Len(seq))

\* DataPoller.pollTimer, data_poller.ts:881: declared, read by clearTimeout in
\* start() and stop(), and assigned nowhere (line 1325 drops setTimeout's handle)
pollTimer == "undefined"

\* clearTimeout(handle) on the armed timers: a handle that is not a timer's is ignored
clearTimeout(tm, handle) == IF handle = "undefined" THEN tm ELSE <<>>

\* a faulty variant: doPoll without its guard
DoPollNeverSkips(isPolling) == FALSE

\* data_poller.ts:978: `if (this.polling) return;`
DoPollSkips(isPolling) == isPolling

\* a faulty variant: the finally block of doPoll without its note of the time
FinallyKeepsLastPoll(tm, isStopped, sc, doingPollTooFast, timeSinceLastPoll) ==
    /\ lastPoll' = lastPoll
    /\ polling' = FALSE
    /\ defferedPoll' = "fulfilled"
    /\ tick' = IdleTick
    /\ timers' = IF ~isStopped /\ cfg.interval >= 0
                 THEN Append(tm, now + (IF doingPollTooFast
                                        THEN miminumPollInterval - timeSinceLastPoll
                                        ELSE cfg.interval))
                 ELSE tm
    /\ stopCall' = CASE sc = "awaiting" -> "returned"
                     [] sc = "superseded" -> "idle"
                     [] OTHER -> sc

\* a faulty variant: the finally block of doPoll without its setTimeout
FinallyArmsNoTimer(tm, isStopped, sc, doingPollTooFast, timeSinceLastPoll) ==
    /\ lastPoll' = now
    /\ polling' = FALSE
    /\ defferedPoll' = "fulfilled"
    /\ tick' = IdleTick
    /\ timers' = tm
    /\ stopCall' = CASE sc = "awaiting" -> "returned"
                     [] sc = "superseded" -> "idle"
                     [] OTHER -> sc

\* data_poller.ts:1314-1328, the finally block of doPoll.  tm: the armed timers;
\* isStopped: this.stopped; sc: the stop() call, which awaits this.defferedPoll
Finally(tm, isStopped, sc, doingPollTooFast, timeSinceLastPoll) ==
    /\ lastPoll' = now
    /\ polling' = FALSE
    /\ defferedPoll' = "fulfilled"
    /\ tick' = IdleTick
    /\ timers' = IF ~isStopped /\ cfg.interval >= 0
                 THEN Append(tm, now + (IF doingPollTooFast
                                        THEN miminumPollInterval - timeSinceLastPoll
                                        ELSE cfg.interval))
                 ELSE tm
    /\ stopCall' = CASE sc = "awaiting" -> "returned"
                     [] sc = "superseded" -> "idle"
                     [] OTHER -> sc

\* data_poller.ts:977-996: doPoll(doFullUpdate) up to `await this.tryLoadPollData()`
DoPoll(src, doFullUpdate, tm, isStopped, sc) ==
    /\ calls < MaxCalls
    /\ calls' = calls + 1
    /\ UNCHANGED loadedPollData
    /\ IF DoPollSkips(polling)
       THEN /\ timers' = tm
            /\ stopCall' = sc
            /\ hist' = [hist EXCEPT !.skipped = TRUE]
            /\ UNCHANGED <<polling, defferedPoll, lastPoll, tick, inflight, tickEv, walk>>
       ELSE LET timeSinceLastPoll == now - lastPoll
                doingPollTooFast == timeSinceLastPoll < miminumPollInterval
            IN  /\ tickEv' = <<>>
                /\ hist' = hist
                /\ walk' = [walk EXCEPT !.done = FALSE]
                /\ IF ~cfg.ready
                   THEN /\ Finally(tm, isStopped, sc, doingPollTooFast, timeSinceLastPoll)
                        /\ inflight' = inflight
                   ELSE /\ polling' = TRUE
                        /\ defferedPoll' = "pending"
                        /\ tick' = [IdleTick EXCEPT
                                      !.pc = "load", !.src = src,
                                      !.doingPollTooFast = doingPollTooFast,
                                      !.timeSinceLastPoll = timeSinceLastPoll,
                                      !.doFullUpdate = doFullUpdate,
                                      !.offersSince = pollData.offersSince]
                        /\ inflight' = inflight + 1
                        /\ timers' = tm
                        /\ stopCall' = sc
                        /\ lastPoll' = lastPoll

\* an armed setTimeout(this.doPoll.bind(this), delay) comes due (line 1325)
TimerFire ==
    /\ \E i \in 1..Len(timers) :
          /\ timers[i] <= now
          /\ DoPoll("timer", FALSE, RemoveAt(timers, i), stopped, stopCall)
    /\ UNCHANGED <<conf, pollData, cancelOps, cancelEv, now, cfg, remote, created, stopped, pendingSendOffersCount, offers>>

\* doPoll() called by decline() (trade_offer.ts:353), accept() (line 418) or the
\* user, who may force a full update
RequestPoll ==
    /\ \E doFullUpdate \in BOOLEAN : DoPoll("user", doFullUpdate, timers, stopped, stopCall)
    /\ UNCHANGED <<conf, pollData, cancelOps, cancelEv, now, cfg, remote, created, stopped, pendingSendOffersCount, offers>>

\* data_poller.ts:917-924
Start ==
    /\ cfg.user = "operator"
    /\ stopped' = FALSE
    /\ LET sc == IF stopCall \in {"awaiting", "superseded"} THEN "superseded" ELSE "idle"
       IN  IF polling \/ defferedPoll = "pending" \/ cfg.interval < 0
           THEN /\ stopCall' = sc
                /\ UNCHANGED <<loadedPollData, hist, polling, defferedPoll, lastPoll,
                               tick, inflight, tickEv, walk, timers, calls>>
           ELSE DoPoll("start", FALSE, clearTimeout(timers, pollTimer), FALSE, sc)
    /\ UNCHANGED <<conf, pollData, cancelOps, cancelEv, now, cfg, remote, created, pendingSendOffersCount, offers>>

\* data_poller.ts:926-936: stop() up to `await this.defferedPoll`; the await of
\* a pending Deferred ends in Finally
Stop ==
    /\ cfg.user = "operator"
    /\ stopCall \in {"idle", "returned"}
    /\ timers' = clearTimeout(timers, pollTimer)
    /\ stopped' = TRUE
    /\ stopCall' = IF defferedPoll = "pending" THEN "awaiting" ELSE "returned"
    /\ UNCHANGED <<conf, cancelOps, cancelEv, now, cfg, remote, created, pollData, polling, defferedPoll, lastPoll,
                   loadedPollData, tick, pendingSendOffersCount, offers, calls, inflight,
                   tickEv, walk, hist>>

\* data_poller.ts:1331-1355 and 998-1033: tryLoadPollData returns; doPoll goes on
\* to the rate floor and to getOffers' request (1377-1419)
LoadDone ==
    /\ tick.pc = "load"
    /\ LET needLoad == ~loadedPollData /\ cfg.persist
       IN  \E outcome \in (IF needLoad THEN {"throws", "nothing", "data"} ELSE {"skipped"}) :
             LET pd == IF outcome = "data"
                       THEN MergeLoaded(LoadedData(cfg.universe), pollData) ELSE pollData
             IN  /\ loadedPollData' = (loadedPollData \/ needLoad)
                 /\ pollData' = pd
                 /\ IF tick.doingPollTooFast
                    THEN /\ Finally(timers, stopped, stopCall, TRUE, tick.timeSinceLastPoll)
                         /\ inflight' = inflight - 1
                         /\ hist' = hist
                    ELSE /\ hist' = [hist EXCEPT !.fetchedAt = now]
                         /\ tick' = [tick EXCEPT
                                       !.pc = "fetch",
                                       !.fullUpdate = ~(pd.offersSince # 0 /\ ~tick.doFullUpdate),
                                       !.requestedAt = FloorSec(now) - HistoricalBuffer]
                         /\ UNCHANGED <<polling, defferedPoll, lastPoll, timers, stopCall,
                                        inflight>>
    /\ UNCHANGED <<conf, cancelOps, cancelEv, now, cfg, remote, created, stopped, pendingSendOffersCount, offers, calls,
                   tickEv, walk>>

\* the triples <<id, previous, current>> of the sentOfferChanged events of ev
ChangedTriples(ev, resp) ==
    {<<ev[i][2], ev[i][3], resp[ev[i][2]].state>> : i \in Named(ev, "sentOfferChanged")}

\* what GetTradeOffers may answer: any offers, those of the library's own sends
\* only once the remote has created them
Tables(universe, existing) ==
    {t \in [SentIds \cup RecvIds ->
              UNION {Shapes(universe, id) : id \in SentIds \cup RecvIds} \cup {Absent}] :
        \A id \in DOMAIN t :
            /\ t[id] # Absent => t[id] \in Shapes(universe, id)
            /\ id \in SendIds /\ id \notin existing => t[id] = Absent}

\* the calls the walk made, <<id, why>> in order, as operations in flight.
\* offer.cancel() (lines 1123, 1154) runs decline() up to its fetch: the offer
\* has an id and is Active or CreatedNeedsConfirmation (trade_offer.ts:327-346);
\* the quota trim calls TradeOffer.fromOfferId first (line 1208)
RECURSIVE StartedOps(_)
StartedOps(started) ==
    IF started = <<>> THEN EmptyBag
    ELSE SetToBag({[id |-> Head(started)[1], why |-> Head(started)[2],
                    pc |-> IF Head(started)[2] = "cancelOfferCount"
                           THEN "fromOfferId" ELSE "cancel"]})
         (+) StartedOps(Tail(started))

\* data_poller.ts:1033-1313: getOffers answers; the walk, the cancellations
\* started, the cutoff, the prune
FetchDone ==
    /\ tick.pc = "fetch"
    /\ \/ \* getOffers throws (transport error, timeout, malformed response)
          /\ tickEv' = Append(tickEv, Ev("pollFailure", "-"))
          /\ Finally(timers, stopped, stopCall, FALSE, tick.timeSinceLastPoll)
          /\ inflight' = inflight - 1
          /\ UNCHANGED <<pollData, walk, hist, remote, cancelOps>>
       \/ \E resp \in Tables(cfg.universe, created) :
             LET sentIds == Listed(SentSeq, resp)
                 recvIds == Listed(RecvSeq, resp)
                 w0 == [pd |-> pollData, ev |-> <<>>, glitched |-> FALSE, cancels |-> <<>>,
                        targets |-> <<>>]
                 w1 == SentWalk(w0, sentIds, resp, pendingSendOffersCount, now, cfg)
                 w1q == QuotaTrim(w1, sentIds, resp, now, cfg)
                 w2 == ReceivedWalk(w1q, recvIds, resp, cfg.getDescriptions)
                 oldest == OldestNonTerminal(resp, {id \in DOMAIN resp : resp[id] # Absent})
                 pd3 == AdvanceCutoff(w2.pd, w2.glitched, oldest, tick.requestedAt)
                 pruned == tryDeleteOldProps(pd3)
                 triples == ChangedTriples(w2.ev, resp)
             IN  /\ remote' = resp
                 /\ pollData' = pruned.pd
                 /\ cancelOps' = cancelOps (+) StartedOps(w2.cancels)
                 /\ walk' = [done |-> TRUE,
                             pending |-> pendingSendOffersCount,
                             unknown |-> {sentIds[i] : i \in {j \in 1..Len(sentIds) :
                                                         ~Has(pollData.sent, sentIds[j])}},
                             changedSent |->
                                {<<id, pollData.sent[id]>> : id \in
                                   {x \in DOMAIN pollData.sent :
                                       /\ resp[x] # Absent
                                       /\ resp[x].state # pollData.sent[x]
                                       /\ ~isGlitched(resp[x], cfg.getDescriptions)}},
                             changedReceived |->
                                {<<id, pollData.received[id]>> : id \in
                                   {x \in DOMAIN pollData.received :
                                       /\ resp[x] # Absent
                                       /\ resp[x].state # pollData.received[x]
                                       /\ ~isGlitched(resp[x], cfg.getDescriptions)}},
                             same |-> (walk.walked /\ remote = resp),
                             walked |-> TRUE,
                             sendBetween |-> hist.sendRecorded,
                             glitched |-> w2.glitched,
                             cutoffBefore |-> pollData.offersSince,
                             started |-> w2.cancels,
                             targets |-> w2.targets,
                             evBefore |-> cancelEv]
                 /\ hist' = [hist EXCEPT
                               !.unknownSent = @ \cup {w2.ev[i][2] : i \in Named(w2.ev, "unknownOfferSent")},
                               !.dup = @ \/ (triples \cap hist.triples # {}),
                               !.triples = @ \cup triples,
                               !.sendRecorded = FALSE,
                               !.cutoff = IF pruned.threw THEN @ ELSE pruned.pd.offersSince]
                 /\ IF pruned.threw
                    THEN /\ tickEv' = tickEv \o w2.ev \o <<Ev("pollFailure", "-")>>
                         /\ Finally(timers, stopped, stopCall, FALSE, tick.timeSinceLastPoll)
                         /\ inflight' = inflight - 1
                    ELSE /\ tickEv' = tickEv \o w2.ev \o <<Ev("pollSuccess", "-")>>
                         /\ tick' = [tick EXCEPT !.pc = "save"]
                         /\ UNCHANGED <<polling, defferedPoll, lastPoll, timers, stopCall,
                                        inflight>>
    /\ UNCHANGED <<conf, cancelEv, now, cfg, created, stopped, loadedPollData,
                   pendingSendOffersCount, offers, calls>>

\* data_poller.ts:1304, 1357-1375: trySavePollData returns (a failing save is
\* caught and logged), then the finally block
SaveDone ==
    /\ tick.pc = "save"
    /\ Finally(timers, stopped, stopCall, FALSE, tick.timeSinceLastPoll)
    /\ inflight' = inflight - 1
    /\ UNCHANGED <<conf, cancelOps, cancelEv, now, cfg, remote, created, pollData, stopped, loadedPollData,
                   pendingSendOffersCount, offers, calls, tickEv, walk, hist>>

(***************************************************************************)
(* trade_offer.ts: TradeOffer.send                                         *)
(***************************************************************************)
\* trade_offer.ts:536-560 (offerItemChangeGuard), addMyItem: the user puts an item
\* in an offer that is not sent yet
AddItem(o) ==
    /\ cfg.user = "trader"
    /\ offers[o].pc = "idle"
    /\ offers[o].id = NoId
    /\ offers[o].itemsToGive = <<>>
    /\ offers' = [offers EXCEPT ![o].itemsToGive = <<"i1">>]
    /\ UNCHANGED <<conf, cancelOps, cancelEv, now, cfg, remote, created, pollData, polling, stopped, defferedPoll,
                   lastPoll, loadedPollData, timers, tick, stopCall,
                   pendingSendOffersCount, calls, inflight, tickEv, walk, hist>>

\* trade_offer.ts:214-270: send() up to `await this.manager.steamCommunity.fetch`.
\* The remote may create the offer at once: it exists from now on.
SendStart(o) ==
    /\ cfg.user = "trader"
    /\ offers[o].pc = "idle"
    /\ IF offers[o].id # NoId
          \/ Len(offers[o].itemsToGive) + Len(offers[o].itemsToReceive) = 0
       THEN /\ offers' = [offers EXCEPT ![o].result = "threw", ![o].resp = NoResponse]
            /\ UNCHANGED <<pendingSendOffersCount, created>>
       ELSE \E made \in BOOLEAN :
              /\ made => IdOfSend(o) \notin created
              /\ pendingSendOffersCount' = pendingSendOffersCount + 1
              /\ offers' = [offers EXCEPT ![o].pc = "fetch", ![o].made = made,
                                          ![o].result = "none", ![o].resp = NoResponse]
              /\ created' = IF made THEN created \cup {IdOfSend(o)} ELSE created
    /\ UNCHANGED <<conf, cancelOps, cancelEv, now, cfg, remote, pollData, polling, stopped, defferedPoll, lastPoll,
                   loadedPollData, timers, tick, stopCall, calls, inflight, tickEv, walk,
                   hist>>

\* a faulty variant: the counter is taken back after the fetch instead of in
\* a finally block
SendRespondNoFinally(o) ==
    /\ offers[o].pc = "fetch"
    /\ \E fetchThrows \in BOOLEAN :
          /\ pendingSendOffersCount' =
                IF fetchThrows THEN pendingSendOffersCount ELSE pendingSendOffersCount - 1
          /\ offers' = IF fetchThrows
                    THEN [offers EXCEPT ![o].pc = "idle", ![o].made = FALSE,
                                        ![o].result = "threw"]
                    ELSE [offers EXCEPT ![o].pc = "json"]
    /\ UNCHANGED <<conf, cancelOps, cancelEv, now, cfg, remote, created, pollData, polling, stopped, defferedPoll,
                   lastPoll, loadedPollData, timers, tick, stopCall, calls, inflight,
                   tickEv, walk, hist>>

\* trade_offer.ts:251-275: the fetch settles and the finally block runs; send()
\* goes on to `await response.json()` unless the fetch threw (the transport
\* failed, or steam_community_fetch's validator refused the status)
SendRespond(o) ==
    /\ offers[o].pc = "fetch"
    /\ pendingSendOffersCount' = pendingSendOffersCount - 1
    /\ \E fetchThrows \in BOOLEAN :
          offers' = IF fetchThrows
                    THEN [offers EXCEPT ![o].pc = "idle", ![o].made = FALSE,
                                        ![o].result = "threw"]
                    ELSE [offers EXCEPT ![o].pc = "json"]
    /\ UNCHANGED <<conf, cancelOps, cancelEv, now, cfg, remote, created, pollData, polling, stopped, defferedPoll,
                   lastPoll, loadedPollData, timers, tick, stopCall, calls, inflight,
                   tickEv, walk, hist>>

\* a faulty variant: a body without tradeofferid ends in "Unknown response"
\* whatever its flags
SendParseNeedsId(offer, pd, resp) ==
    LET hasId == resp.tradeofferid # NoId
        \* lines 277-288: a status other than 200, throwIfHasError
        throws == resp.kind # "ok"
        \* lines 290-306
        o1 == IF hasId
              THEN [offer EXCEPT !.id = resp.tradeofferid, !.state = "Active"]
              ELSE offer
        pd1 == IF hasId
               THEN [pd EXCEPT
                       !.sent = Put(@, o1.id, o1.state),
                       !.cancelTimes =
                          IF offer.cancelTime # 0 THEN Put(@, o1.id, offer.cancelTime) ELSE @,
                       !.pendingCancelTimes =
                          IF offer.pendingCancelTime # 0
                          THEN Put(@, o1.id, offer.pendingCancelTime) ELSE @]
               ELSE pd
        \* lines 308-316
        o2 == IF resp.email
              THEN [o1 EXCEPT !.state = "CreatedNeedsConfirmation",
                              !.confirmationMethod = "Email"]
              ELSE o1
        o3 == IF resp.mobile
              THEN [o2 EXCEPT !.state = "CreatedNeedsConfirmation",
                              !.confirmationMethod = "MobileApp"]
              ELSE o2
        \* lines 318-324
        result == IF ~hasId THEN "threw"
                  ELSE IF o3.state = "CreatedNeedsConfirmation"
                       THEN "CreatedNeedsConfirmation" ELSE "Active"
    IN  IF throws THEN [offer |-> offer, pd |-> pd, result |-> "threw"]
        ELSE [offer |-> o3, pd |-> pd1, result |-> result]

\* trade_offer.ts:275-325: the rest of send(), on the response resp.
\* The result is [offer, pd, result].
SendParse(offer, pd, resp) ==
    LET hasId == resp.tradeofferid # NoId
        \* lines 277-288: a status other than 200, throwIfHasError
        throws == resp.kind # "ok"
        \* lines 290-306
        o1 == IF hasId
              THEN [offer EXCEPT !.id = resp.tradeofferid, !.state = "Active"]
              ELSE offer
        pd1 == IF hasId
               THEN [pd EXCEPT
                       !.sent = Put(@, o1.id, o1.state),
                       !.cancelTimes =
                          IF offer.cancelTime # 0 THEN Put(@, o1.id, offer.cancelTime) ELSE @,
                       !.pendingCancelTimes =
                          IF offer.pendingCancelTime # 0
                          THEN Put(@, o1.id, offer.pendingCancelTime) ELSE @]
               ELSE pd
        \* lines 308-316
        o2 == IF resp.email
              THEN [o1 EXCEPT !.state = "CreatedNeedsConfirmation",
                              !.confirmationMethod = "Email"]
              ELSE o1
        o3 == IF resp.mobile
              THEN [o2 EXCEPT !.state = "CreatedNeedsConfirmation",
                              !.confirmationMethod = "MobileApp"]
              ELSE o2
        \* lines 318-324
        result == IF o3.state = "CreatedNeedsConfirmation" THEN "CreatedNeedsConfirmation"
                  ELSE IF hasId THEN "Active" ELSE "threw"
    IN  IF throws THEN [offer |-> offer, pd |-> pd, result |-> "threw"]
        ELSE [offer |-> o3, pd |-> pd1, result |-> result]

\* trade_offer.ts:275-325: response.json() settles and send() runs to its end
SendFinish(o) ==
    /\ offers[o].pc = "json"
    /\ \E resp \in SendResponses(o, offers[o].made) :
         LET r == SendParse(offers[o], pollData, resp)
         IN  /\ offers' = [offers EXCEPT
                             ![o] = [r.offer EXCEPT !.pc = "idle", !.made = FALSE,
                                                    !.result = r.result, !.resp = resp]]
             /\ pollData' = r.pd
             /\ hist' = [hist EXCEPT !.sendRecorded = @ \/ (r.pd.sent # pollData.sent)]
    /\ UNCHANGED <<conf, cancelOps, cancelEv, now, cfg, remote, created, polling, stopped, defferedPoll, lastPoll,
                   loadedPollData, timers, tick, stopCall, pendingSendOffersCount, calls,
                   inflight, tickEv, walk>>

(***************************************************************************)
(* data_poller.ts, trade_offer.ts: the cancellations a walk started settle *)
(***************************************************************************)
\* a faulty variant: the callback of a cancel() that resolved, without deleteTimeProps
CancelThenKeepsTimes(pd, offerid) == pd

\* data_poller.ts:1124, 1155, 1211: the .then callback of cancel(), on the store
CancelThen(pd, offerid) == deleteTimeProps(pd, offerid)

\* data_poller.ts:1125-1128, 1156-1159, 1212-1215: the event the callback posts
CancelThenEvent(op) ==
    IF op.why = "pending" THEN <<"sentPendingOfferCanceled", op.id, "-">>
    ELSE <<"sentOfferCanceled", op.id, op.why>>

\* a faulty variant: the handler of a cancel() that rejected, clearing the times
CancelCatchClearsTimes(pd, offerid) == deleteTimeProps(pd, offerid)

\* data_poller.ts:1129-1136, 1160-1169, 1216-1222: the .catch handler posts a
\* debug event and touches nothing
CancelCatch(pd, offerid) == pd

CancelCatchEvent(op) == <<"debug", op.id, op.why>>

\* trade_offer.ts:632-643 and data_poller.ts:1208-1210: fromOfferId settles.  It
\* rejects when the TradeOffer constructor or update() throws (no handler is
\* attached: lines 1208-1224 have no catch); else the offer has the state the
\* remote reports, and cancel() runs decline() up to its fetch, or rejects for a
\* state other than Active and CreatedNeedsConfirmation (trade_offer.ts:332-339)
FromOfferIdSettle ==
    /\ \E op \in BagToSet(cancelOps) :
          /\ op.pc = "fromOfferId"
          /\ \E outcome \in {"rejects", "Active", "Canceled"} :
                /\ cancelOps' = (cancelOps (-) SetToBag({op}))
                                 (+) (IF outcome = "Active"
                                      THEN SetToBag({[op EXCEPT !.pc = "cancel"]})
                                      ELSE EmptyBag)
                /\ cancelEv' = IF outcome = "Canceled" THEN <<CancelCatchEvent(op)>>
                               ELSE <<>>
                /\ pollData' = IF outcome = "Canceled" THEN CancelCatch(pollData, op.id)
                               ELSE pollData
    /\ UNCHANGED <<conf, now, cfg, remote, created, polling, stopped, defferedPoll, lastPoll,
                   loadedPollData, timers, tick, stopCall, pendingSendOffersCount, offers,
                   calls, inflight, tickEv, walk, hist>>

\* trade_offer.ts:346-354 and the callbacks above: the fetch of decline()
\* settles.  If it threw, cancel() rejects; else decline() calls doPoll() and
\* cancel() resolves
CancelSettle ==
    /\ \E op \in BagToSet(cancelOps) :
          /\ op.pc = "cancel"
          /\ cancelOps' = cancelOps (-) SetToBag({op})
          /\ \/ /\ cancelEv' = <<CancelCatchEvent(op)>>
                /\ pollData' = CancelCatch(pollData, op.id)
                /\ UNCHANGED <<polling, defferedPoll, lastPoll, loadedPollData, timers, tick,
                               stopCall, calls, inflight, tickEv, walk, hist>>
             \/ /\ DoPoll("cancel", FALSE, timers, stopped, stopCall)
                /\ cancelEv' = <<CancelThenEvent(op)>>
                /\ pollData' = CancelThen(pollData, op.id)
    /\ UNCHANGED <<conf, now, cfg, remote, created, stopped, pendingSendOffersCount, offers>>

(***************************************************************************)
(* The environment: the clock advances                                     *)
(***************************************************************************)
Advance ==
    /\ now < StartMs + MaxAdvance * cfg.step
    /\ now' = now + cfg.step
    /\ UNCHANGED <<conf, cancelOps, cancelEv, cfg, remote, created, pollData, polling, stopped, defferedPoll, lastPoll,
                   loadedPollData, timers, tick, stopCall, pendingSendOffersCount, offers,
                   calls, inflight, tickEv, walk, hist>>

Next ==
    \/ TimerFire
    \/ RequestPoll
    \/ Start
    \/ Stop
    \/ LoadDone
    \/ FetchDone
    \/ SaveDone
    \/ \E o \in OfferObjs : AddItem(o)
    \/ \E o \in OfferObjs : SendStart(o)
    \/ \E o \in OfferObjs : SendRespond(o)
    \/ \E o \in OfferObjs : SendFinish(o)
    \/ Advance

Spec == Init /\ [][Next]_vars

\* the manager with the automatic cancellations on: its owner asks for polls
\* and sends nothing meanwhile
CancelInit == InitWith(CancelConfigs)

CancelNext ==
    \/ RequestPoll
    \/ LoadDone
    \/ FetchDone
    \/ SaveDone
    \/ FromOfferIdSettle
    \/ CancelSettle
    \/ Advance

CancelSpec == CancelInit /\ [][CancelNext]_vars

(***************************************************************************)
(* confirmation_service.ts: ConfirmationService                            *)
(***************************************************************************)
\* ConfirmationObject.creator of the entries of ConfLists: the offer each
\* confirmation authorizes
Creator(k) == IF k = "k1" THEN "X" ELSE "F"

\* confirmation_service.ts:209-211: lastConfirmationList.find(cobj => cobj.creator === offerid)
Found(list, offerid) == \E i \in 1..Len(list) : Creator(list[i]) = offerid

\* confirmation_service.ts:112 and 240 with another right-hand side: the offset
\* is read and not incremented
DeriveKeepsOffset(cs, c, tag, nowMs) ==
    [cs EXCEPT !.time[c] = FloorSec(nowMs) + cs.localOffset,
               !.derived = Append(@, [sec |-> FloorSec(nowMs),
                                      t |-> FloorSec(nowMs) + cs.localOffset,
                                      tag |-> tag])]

\* confirmation_service.ts:112 and 240:
\* time = getLocalUnixTime() + this.localOffset++, the time getKey is called with
Derive(cs, c, tag, nowMs) ==
    [cs EXCEPT !.time[c] = FloorSec(nowMs) + cs.localOffset,
               !.localOffset = @ + 1,
               !.derived = Append(@, [sec |-> FloorSec(nowMs),
                                      t |-> FloorSec(nowMs) + cs.localOffset,
                                      tag |-> tag])]

\* confirmation_service.ts:48-83: request(options) once the steamID is known:
\* the offset is reset above MaxLocalOffset and the request goes out with the
\* time and the tag of the call
Request(cs, c, tag) ==
    [cs EXCEPT !.localOffset = IF @ > MaxLocalOffset THEN 0 ELSE @,
               !.sent = Append(@, [t |-> cs.time[c], tag |-> tag, by |-> c])]

\* confirmation_service.ts:106-113: getConfirmations up to its first await.  A
\* call that finds a Deferred awaits it; else it makes one, takes its time and
\* awaits getKey
EnterGetConfirmations(cs, c, nowMs) ==
    IF cs.deffer # "undefined"
    THEN [cs EXCEPT !.pc[c] = "waiting", !.awaits[c] = cs.deffer, !.queue = Append(@, c)]
    ELSE Derive([cs EXCEPT !.pc[c] = "key", !.deffer = c], c, "conf", nowMs)

\* confirmation_service.ts:226-241: doConfirmationOperation up to its first await
DoConfirmationOperation(cs, c, operation, nowMs) ==
    Derive([cs EXCEPT !.pc[c] = "opkey"], c, operation, nowMs)

\* confirmation_service.ts:205-224 with the retry at every miss: _sr is not
\* looked at
FindOrGetConfirmationAlwaysRetries(cs, c, offerid, sr, nowMs) ==
    IF ~Found(cs.lastConfirmationList, offerid)
    THEN EnterGetConfirmations(cs, c, nowMs)
    ELSE [cs EXCEPT !.pc[c] = "found"]

\* confirmation_service.ts:205-224: findOrGetConfirmation(offerid, _sr) up to
\* its await or its end
FindOrGetConfirmation(cs, c, offerid, sr, nowMs) ==
    IF ~Found(cs.lastConfirmationList, offerid)
    THEN IF sr
         THEN [cs EXCEPT !.pc[c] = "threw", !.error[c] = "NotFound"]
         ELSE EnterGetConfirmations(cs, c, nowMs)
    ELSE [cs EXCEPT !.pc[c] = "found"]

\* confirmation_service.ts:270-279: respondToOffer once findOrGetConfirmation
\* has settled: with a confirmation it goes on to doConfirmationOperation
RespondToOfferResume(cs, c, nowMs) ==
    IF cs.pc[c] = "found"
    THEN DoConfirmationOperation(cs, c, cs.call[c].operation, nowMs)
    ELSE cs

\* what the caller of getConfirmations does when the call c settles:
\* cancelAllConfirmations (lines 292-298) operates on a list that is not
\* empty; findOrGetConfirmation (line 219) looks once more, with _sr set
Resume(cs, c, nowMs) ==
    IF cs.call[c].kind = "none" THEN cs
    ELSE IF cs.pc[c] # "returned" THEN [cs EXCEPT !.error[c] = "other"]
    ELSE IF cs.call[c].kind = "cancelAll"
    THEN IF cs.lastConfirmationList # <<>>
         THEN DoConfirmationOperation(cs, c, cs.call[c].operation, nowMs)
         ELSE [cs EXCEPT !.pc[c] = "done"]
    ELSE RespondToOfferResume(
            FindOrGetConfirmation(cs, c, cs.call[c].offerid, TRUE, nowMs), c, nowMs)

\* the calls of queue that await a Deferred of resolved, in order
RECURSIVE Woken(_, _, _)
Woken(queue, awaits, resolved) ==
    IF queue = <<>> THEN <<>>
    ELSE (IF awaits[Head(queue)] \in resolved THEN <<Head(queue)>> ELSE <<>>)
         \o Woken(Tail(queue), awaits, resolved)

\* confirmation_service.ts:110-113: the calls that awaited the Deferred go on,
\* in the order they came: each makes a Deferred of its own, takes its time and
\* awaits getKey
RECURSIVE WakeAll(_, _, _)
WakeAll(cs, woken, nowMs) ==
    IF woken = <<>> THEN cs
    ELSE WakeAll(Derive([cs EXCEPT !.pc[Head(woken)] = "key", !.deffer = Head(woken)],
                        Head(woken), "conf", nowMs),
                 Tail(woken), nowMs)

\* confirmation_service.ts:199-202: the finally block of the call c, whose try
\* block ended with result ("ok" or "threw"), then what its settling sets off
\* before anything else runs: the caller resumes and the calls that awaited the
\* Deferred go on.  resolve() on undefined raises TypeError.  The caller of
\* cancelAllConfirmations resumes before the awaiting calls do (it awaits the
\* promise of getConfirmations itself); respondToOffer resumes after them (the
\* promise passes through findOrGetConfirmation's return first).
Finish(cs, c, result, nowMs) ==
    LET threw == cs.deffer = "undefined"
        failed == threw \/ result = "threw"
        resolved == IF threw THEN cs.resolved ELSE cs.resolved \cup {cs.deffer}
        woken == Woken(cs.queue, cs.awaits, resolved)
        settled == [cs EXCEPT
                      !.resolved = resolved,
                      !.deffer = "undefined",
                      !.pc[c] = IF failed THEN "threw" ELSE "returned",
                      !.returned = IF failed THEN @ ELSE @ \cup {c},
                      !.observed[c] = IF failed THEN "threw" ELSE cs.lastConfirmationList,
                      !.queue = SelectSeq(@, LAMBDA x : cs.awaits[x] \notin resolved)]
    IN  IF cs.call[c].kind = "cancelAll"
        THEN WakeAll(Resume(settled, c, nowMs), woken, nowMs)
        ELSE Resume(WakeAll(settled, woken, nowMs), c, nowMs)

\* a call of getConfirmations begins
GetConfirmations(c) ==
    /\ conf.pc[c] = "idle"
    /\ conf' = EnterGetConfirmations(conf, c, now)
    /\ UNCHANGED <<now, cfg, remote, created, pollData, polling, stopped, defferedPoll,
                   lastPoll, loadedPollData, timers, tick, stopCall,
                   pendingSendOffersCount, offers, calls, inflight, tickEv, walk, hist,
                   cancelOps, cancelEv>>

\* confirmation_service.ts:113-119: getKey settles; if it threw, or request()
\* throws (not logged in), the finally block runs; else the request is sent
GetKeyDone(c) ==
    /\ conf.pc[c] = "key"
    /\ \E throws \in BOOLEAN :
          conf' = IF throws THEN Finish(conf, c, "threw", now)
                  ELSE [Request(conf, c, "conf") EXCEPT
                          !.pc[c] = "fetching", !.requested = @ \cup {c},
                          !.fetches[c] = @ + 1]
    /\ UNCHANGED <<now, cfg, remote, created, pollData, polling, stopped, defferedPoll,
                   lastPoll, loadedPollData, timers, tick, stopCall,
                   pendingSendOffersCount, offers, calls, inflight, tickEv, walk, hist,
                   cancelOps, cancelEv>>

\* confirmation_service.ts:120-202: the response arrives and is parsed: the
\* list is stored (lines 145, 197), or an error is thrown
ResponseDone(c) ==
    /\ conf.pc[c] = "fetching"
    /\ \/ conf' = Finish(conf, c, "threw", now)
       \/ \E list \in ConfLists :
             conf' = Finish([conf EXCEPT !.lastConfirmationList = list,
                                         !.succeeded = @ \cup {c}], c, "ok", now)
    /\ UNCHANGED <<now, cfg, remote, created, pollData, polling, stopped, defferedPoll,
                   lastPoll, loadedPollData, timers, tick, stopCall,
                   pendingSendOffersCount, offers, calls, inflight, tickEv, walk, hist,
                   cancelOps, cancelEv>>

ConfInit == InitWith({Config(-1, FALSE, TRUE, "sent", "trader")})

ConfNext ==
    \/ \E c \in Callers : GetConfirmations(c)
    \/ \E c \in Callers : GetKeyDone(c)
    \/ \E c \in Callers : ResponseDone(c)

ConfSpec == ConfInit /\ [][ConfNext]_vars

\* confirmation_service.ts:266-288: allowOffer(offerid), cancelOffer(offerid):
\* respondToOffer up to its first await that waits for the outside
RespondToOffer(c, offerid, operation) ==
    /\ conf.pc[c] = "idle"
    /\ LET called == [conf EXCEPT
                        !.call[c] = [kind |-> "respond", offerid |-> offerid,
                                     operation |-> operation,
                                     found |-> Found(conf.lastConfirmationList, offerid)]]
       IN  conf' = RespondToOfferResume(
                      FindOrGetConfirmation(called, c, offerid, FALSE, now), c, now)
    /\ UNCHANGED <<now, cfg, remote, created, pollData, polling, stopped, defferedPoll,
                   lastPoll, loadedPollData, timers, tick, stopCall,
                   pendingSendOffersCount, offers, calls, inflight, tickEv, walk, hist,
                   cancelOps, cancelEv>>

\* confirmation_service.ts:290-291: cancelAllConfirmations up to its first await
CancelAllConfirmations(c) ==
    /\ conf.pc[c] = "idle"
    /\ conf' = EnterGetConfirmations(
                  [conf EXCEPT !.call[c] = [NoCall EXCEPT !.kind = "cancelAll", !.operation = "cancel"]], c, now)
    /\ UNCHANGED <<now, cfg, remote, created, pollData, polling, stopped, defferedPoll,
                   lastPoll, loadedPollData, timers, tick, stopCall,
                   pendingSendOffersCount, offers, calls, inflight, tickEv, walk, hist,
                   cancelOps, cancelEv>>

\* confirmation_service.ts:241-253: getKey settles for an operation; if it
\* threw, or request() throws, the call fails; else the request is sent
OperationKeyDone(c) ==
    /\ conf.pc[c] = "opkey"
    /\ \E throws \in BOOLEAN :
          conf' = IF throws
                  THEN [conf EXCEPT !.pc[c] = "threw", !.error[c] = "other"]
                  ELSE [Request(conf, c, conf.call[c].operation) EXCEPT !.pc[c] = "operating"]
    /\ UNCHANGED <<now, cfg, remote, created, pollData, polling, stopped, defferedPoll,
                   lastPoll, loadedPollData, timers, tick, stopCall,
                   pendingSendOffersCount, offers, calls, inflight, tickEv, walk, hist,
                   cancelOps, cancelEv>>

\* confirmation_service.ts:253-263: the answer to an operation: success, or an
\* error is thrown
OperationDone(c) ==
    /\ conf.pc[c] = "operating"
    /\ \E success \in BOOLEAN :
          conf' = IF success THEN [conf EXCEPT !.pc[c] = "done"]
                  ELSE [conf EXCEPT !.pc[c] = "threw", !.error[c] = "other"]
    /\ UNCHANGED <<now, cfg, remote, created, pollData, polling, stopped, defferedPoll,
                   lastPoll, loadedPollData, timers, tick, stopCall,
                   pendingSendOffersCount, offers, calls, inflight, tickEv, walk, hist,
                   cancelOps, cancelEv>>

\* the clock advances while confirmations are dealt with: once, by as many
\* seconds as the offset counts
ClockTick ==
    /\ now = StartMs
    /\ now' = now + NearReset * 1000
    /\ UNCHANGED <<conf, cfg, remote, created, pollData, polling, stopped, defferedPoll,
                   lastPoll, loadedPollData, timers, tick, stopCall,
                   pendingSendOffersCount, offers, calls, inflight, tickEv, walk, hist,
                   cancelOps, cancelEv>>

\* a service as constructed, or one whose offset has come close to its reset and
\* that holds the list it fetched last
OperateInit ==
    InitOf({Config(-1, FALSE, TRUE, "sent", "trader")},
           {NewConfirmationService,
            [NewConfirmationService EXCEPT
               !.localOffset = NearReset,
               !.lastConfirmationList = <<"k1", "k2">>]},
           {NewOffer})

OperateNext ==
    \/ \E c \in Operators, offerid \in ConfOffers, operation \in {"allow", "cancel"} :
          RespondToOffer(c, offerid, operation)
    \/ \E c \in Operators : CancelAllConfirmations(c)
    \/ \E c \in Operators : GetKeyDone(c)
    \/ \E c \in Operators : ResponseDone(c)
    \/ \E c \in Operators : OperationKeyDone(c)
    \/ \E c \in Operators : OperationDone(c)
    \/ ClockTick

OperateSpec == OperateInit /\ [][OperateNext]_vars

(***************************************************************************)
(* trade_offer.ts: the mutators of a TradeOffer, decline() and cancel()    *)
(***************************************************************************)
\* a call in progress on an offer: r.offer is the TradeOffer, r.threw tells
\* that an exception ended the call
Running(offer) == [offer |-> offer, threw |-> FALSE]

\* Array.prototype.findIndex / splice(index, 1) with EconItem.equals
RECURSIVE RemoveFirst(_, _)
RemoveFirst(seq, item) ==
    IF seq = <<>> THEN <<>>
    ELSE IF Head(seq) = item THEN Tail(seq)
    ELSE <<Head(seq)>> \o RemoveFirst(Tail(seq), item)

\* a faulty variant: the guard lets sent offers through
GuardIgnoresId(offer, item, adding) == adding /\ item = InvalidItem

\* trade_offer.ts:536-555: offerItemChangeGuard(item, adding) throws
offerItemChangeGuard(offer, item, adding) ==
    \/ offer.id # NoId
    \/ adding /\ item = InvalidItem

\* trade_offer.ts:131-137
setMessage(r, msg) ==
    IF r.offer.id # NoId THEN [r EXCEPT !.threw = TRUE]
    ELSE [r EXCEPT !.offer.message = IF msg > MessageLimit THEN MessageLimit ELSE msg]

\* trade_offer.ts:139-145
setToken(r, token) ==
    IF r.offer.id # NoId THEN [r EXCEPT !.threw = TRUE]
    ELSE [r EXCEPT !.offer.token = token]

\* trade_offer.ts:557-566
addMyItem(r, item) ==
    IF r.threw THEN r
    ELSE IF offerItemChangeGuard(r.offer, item, TRUE) THEN [r EXCEPT !.threw = TRUE]
    ELSE [r EXCEPT !.offer.itemsToGive = Append(@, item)]

\* trade_offer.ts:574-582
removeMyItem(r, item) ==
    IF r.threw THEN r
    ELSE IF offerItemChangeGuard(r.offer, item, FALSE) THEN [r EXCEPT !.threw = TRUE]
    ELSE [r EXCEPT !.offer.itemsToGive = RemoveFirst(@, item)]

\* trade_offer.ts:588-597
addTheirItem(r, item) ==
    IF r.threw THEN r
    ELSE IF offerItemChangeGuard(r.offer, item, TRUE) THEN [r EXCEPT !.threw = TRUE]
    ELSE [r EXCEPT !.offer.itemsToReceive = Append(@, item)]

\* trade_offer.ts:605-613
removeTheirItem(r, item) ==
    IF r.threw THEN r
    ELSE IF offerItemChangeGuard(r.offer, item, FALSE) THEN [r EXCEPT !.threw = TRUE]
    ELSE [r EXCEPT !.offer.itemsToReceive = RemoveFirst(@, item)]

\* trade_offer.ts:568-572, 584-586, 599-603, 615-618: items.forEach(...); an
\* exception ends the loop.  removeTheirItems goes on to remove one more item,
\* which line 617 names
RECURSIVE ForEach(_, _, _)
ForEach(r, items, method) ==
    IF items = <<>> THEN r
    ELSE ForEach(CASE method = "addMyItems" -> addMyItem(r, Head(items))
                   [] method = "removeMyItems" -> removeMyItem(r, Head(items))
                   [] method = "addTheirItems" -> addTheirItem(r, Head(items))
                   [] method = "removeTheirItems" -> removeTheirItem(r, Head(items)),
                 Tail(items), method)

\* the mutators that take one item, and those that take a list
SingleMethods == {"addMyItem", "removeMyItem", "addTheirItem", "removeTheirItem"}
BulkMethods == {"addMyItems", "removeMyItems", "addTheirItems", "removeTheirItems"}

\* trade_offer.ts:557-618: the call method(items) on r; a single mutator gets
\* the first item of the list
ChangeItems(r, method, items) ==
    CASE method = "addMyItem" -> addMyItem(r, Head(items))
      [] method = "removeMyItem" -> removeMyItem(r, Head(items))
      [] method = "addTheirItem" -> addTheirItem(r, Head(items))
      [] method = "removeTheirItem" -> removeTheirItem(r, Head(items))
      [] method = "removeTheirItems" ->
            removeTheirItem(ForEach(r, items, method), LeftoverItem)
      [] OTHER -> ForEach(r, items, method)

\* the offer after a mutator call, with the outcome of the call
Mutated(r, method, items) ==
    [r.offer EXCEPT !.mutation = [method |-> method, items |-> items, threw |-> r.threw]]

\* trade_offer.ts:131-137: the user calls setMessage(msg)
SetMessage(o) ==
    /\ \E msg \in MessageLengths :
          offers' = [offers EXCEPT
                       ![o] = Mutated(setMessage(Running(offers[o]), msg), "setMessage", <<>>)]
    /\ UNCHANGED <<conf, cancelOps, cancelEv, now, cfg, remote, created, pollData, polling,
                   stopped, defferedPoll, lastPoll, loadedPollData, timers, tick, stopCall,
                   pendingSendOffersCount, calls, inflight, tickEv, walk, hist>>

\* trade_offer.ts:139-145: the user calls setToken(token)
SetToken(o) ==
    /\ \E token \in Tokens :
          offers' = [offers EXCEPT
                       ![o] = Mutated(setToken(Running(offers[o]), token), "setToken", <<>>)]
    /\ UNCHANGED <<conf, cancelOps, cancelEv, now, cfg, remote, created, pollData, polling,
                   stopped, defferedPoll, lastPoll, loadedPollData, timers, tick, stopCall,
                   pendingSendOffersCount, calls, inflight, tickEv, walk, hist>>

\* trade_offer.ts:557-618: the user calls a mutator of the items, with one item
\* or with a list; neither list of the offer grows beyond MaxItems
MutateItems(o) ==
    /\ \E method \in SingleMethods \cup BulkMethods, items \in ItemLists :
          /\ method \in SingleMethods => Len(items) = 1
          /\ LET r == ChangeItems(Running(offers[o]), method, items)
             IN  /\ Len(r.offer.itemsToGive) <= MaxItems
                 /\ Len(r.offer.itemsToReceive) <= MaxItems
                 /\ offers' = [offers EXCEPT ![o] = Mutated(r, method, items)]
    /\ UNCHANGED <<conf, cancelOps, cancelEv, now, cfg, remote, created, pollData, polling,
                   stopped, defferedPoll, lastPoll, loadedPollData, timers, tick, stopCall,
                   pendingSendOffersCount, calls, inflight, tickEv, walk, hist>>

\* trade_offer.ts:327-346, 357-359: decline() / cancel() up to its fetch
Decline(o) ==
    /\ offers[o].pc = "idle"
    /\ offers' =
          IF offers[o].id = NoId
             \/ offers[o].state \notin {"Active", "CreatedNeedsConfirmation"}
          THEN [offers EXCEPT ![o].declined = [status |-> "threw", endpoint |-> "none"]]
          ELSE [offers EXCEPT
                  ![o].pc = "declining",
                  ![o].declined = [status |-> "requested",
                                   endpoint |-> IF offers[o].isOurOffer = "true"
                                                THEN "CancelTradeOffer"
                                                ELSE "DeclineTradeOffer"]]
    /\ UNCHANGED <<conf, cancelOps, cancelEv, now, cfg, remote, created, pollData, polling,
                   stopped, defferedPoll, lastPoll, loadedPollData, timers, tick, stopCall,
                   pendingSendOffersCount, calls, inflight, tickEv, walk, hist>>

\* a faulty variant: the state after decline() does not depend on isOurOffer
AlwaysDeclined(offer) == "Declined"

\* trade_offer.ts:349-351: the state decline() gives the offer
DeclinedState(offer) == IF offer.isOurOffer = "true" THEN "Canceled" ELSE "Declined"

\* trade_offer.ts:346-354: the fetch of decline() settles: it threw, or the
\* state is set and doPoll() is called
DeclineSettle(o) ==
    /\ offers[o].pc = "declining"
    /\ \/ /\ offers' = [offers EXCEPT ![o].pc = "idle", ![o].declined.status = "failed"]
          /\ UNCHANGED <<polling, defferedPoll, lastPoll, loadedPollData, timers, tick,
                         stopCall, calls, inflight, tickEv, walk, hist>>
       \/ /\ offers' = [offers EXCEPT
                          ![o].pc = "idle",
                          ![o].declined.status = "done",
                          ![o].state = DeclinedState(offers[o])]
          /\ DoPoll("decline", FALSE, timers, stopped, stopCall)
    /\ UNCHANGED <<conf, cancelOps, cancelEv, now, cfg, remote, created, pollData, stopped,
                   pendingSendOffersCount>>

\* trade_offer.ts:424-430: the confirmation method accept() takes from the body
ConfirmationOfBody(confirmationMethod, body) ==
    IF body.mobile THEN "MobileApp"
    ELSE IF body.email THEN "Email"
    ELSE confirmationMethod

\* trade_offer.ts:435-450: what accept() returns after `await this.update()`
ReturnAfterUpdate(confirmationMethod, state) ==
    IF confirmationMethod # "None" THEN "pending"
    ELSE IF state = "InEscrow" THEN "escrow"
    ELSE IF state = "Accepted" THEN "accepted"
    ELSE "unknown state"

\* trade_offer.ts:453-457: what accept(true) returns
ReturnOfBody(body) == IF body.email \/ body.mobile THEN "pending" ELSE "accepted"

\* trade_offer.ts:361-398: accept(skipStateUpdate) up to the fetch of the accept
\* endpoint
Accept(o, skipStateUpdate) ==
    /\ offers[o].pc = "idle"
    /\ offers' =
          IF \/ offers[o].id = NoId
             \/ offers[o].state # "Active"
             \/ offers[o].isOurOffer = "true"
          THEN [offers EXCEPT ![o].accepted = [NoAccept EXCEPT !.status = "threw",
                                                               !.skip = skipStateUpdate]]
          ELSE [offers EXCEPT ![o].pc = "accepting",
                              ![o].accepted = [NoAccept EXCEPT !.status = "requested",
                                                               !.skip = skipStateUpdate,
                                                               !.remoteCalls = 1]]
    /\ UNCHANGED <<conf, cancelOps, cancelEv, now, cfg, remote, created, pollData, polling,
                   stopped, defferedPoll, lastPoll, loadedPollData, timers, tick, stopCall,
                   pendingSendOffersCount, calls, inflight, tickEv, walk, hist>>

\* trade_offer.ts:384-457: the accept endpoint settles.  The fetch or json()
\* threw, the status is not 200 or the body has strError: accept() throws.
\* Else doPoll() is called, the confirmation method is taken from the body, and
\* accept(true) returns; accept(false) calls update(), which fetches
\* GetTradeOffer
AcceptRespond(o) ==
    /\ offers[o].pc = "accepting"
    /\ \/ /\ offers' = [offers EXCEPT ![o].pc = "idle", ![o].accepted.status = "failed"]
          /\ UNCHANGED <<polling, defferedPoll, lastPoll, loadedPollData, timers, tick,
                         stopCall, calls, inflight, tickEv, walk, hist>>
       \/ /\ \E body \in AcceptBodies :
                LET cm == ConfirmationOfBody(offers[o].confirmationMethod, body)
                IN  offers' =
                       IF offers[o].accepted.skip
                       THEN [offers EXCEPT
                               ![o].pc = "idle",
                               ![o].confirmationMethod = cm,
                               ![o].accepted.body = body,
                               ![o].accepted.status = "done",
                               ![o].accepted.returned = ReturnOfBody(body)]
                       ELSE [offers EXCEPT
                               ![o].pc = "updating",
                               ![o].confirmationMethod = cm,
                               ![o].accepted.body = body,
                               ![o].accepted.remoteCalls = @ + 1]
          /\ DoPoll("accept", FALSE, timers, stopped, stopCall)
    /\ UNCHANGED <<conf, cancelOps, cancelEv, now, cfg, remote, created, pollData, stopped,
                   pendingSendOffersCount>>

\* trade_offer.ts:433-450, 460-471, 170-203: GetTradeOffer settles.  It threw:
\* update() throws and so does accept().  Else update() calls _update without
\* awaiting it: _update sets the state (line 176) and waits at line 183;
\* update() returns and accept() returns by the confirmation method it took
\* from the body and the state just set; then _update goes on and sets the
\* confirmation method of the offer (lines 198-199), before the caller of
\* accept() resumes (the items are made without a request for descriptions)
UpdateSettle(o) ==
    /\ offers[o].pc = "updating"
    /\ \/ offers' = [offers EXCEPT ![o].pc = "idle", ![o].accepted.status = "failed"]
       \/ \E data \in RefreshedOffers :
             offers' = [offers EXCEPT
                          ![o].pc = "idle",
                          ![o].state = data.trade_offer_state,
                          ![o].confirmationMethod = data.confirmation_method,
                          ![o].accepted.data = data,
                          ![o].accepted.status = "done",
                          ![o].accepted.returned =
                             ReturnAfterUpdate(offers[o].confirmationMethod,
                                               data.trade_offer_state)]
    /\ UNCHANGED <<conf, cancelOps, cancelEv, now, cfg, remote, created, pollData, polling,
                   stopped, defferedPoll, lastPoll, loadedPollData, timers, tick, stopCall,
                   pendingSendOffersCount, calls, inflight, tickEv, walk, hist>>

\* the TradeOffer objects a user holds: made by createOffer(), or made by the
\* poller from an offer of GetTradeOffers (TradeOffer.from, _update, lines
\* 171-203 and 620-630) and handed over with an event
HeldOffers ==
    {NewOffer}
    \cup {[NewOffer EXCEPT !.id = id, !.state = state, !.itemsToGive = <<"i1">>,
                          !.isOurOffer = IF id \in SentIds THEN "true" ELSE "false",
                          !.ours = (id \in SentIds)] :
            id \in {"F", "R"}, state \in {"Active", "Accepted"}}

\* a trader whose account the remote lists no offers for during the run
OfferInit ==
    InitOf({Config(-1, FALSE, TRUE, "quiet", "trader")}, {NewConfirmationService},
           HeldOffers)

OfferNext ==
    \/ \E o \in OfferObjs : SetMessage(o)
    \/ \E o \in OfferObjs : SetToken(o)
    \/ \E o \in OfferObjs : MutateItems(o)
    \/ \E o \in OfferObjs : SendStart(o)
    \/ \E o \in OfferObjs : SendRespond(o)
    \/ \E o \in OfferObjs : SendFinish(o)

OfferSpec == OfferInit /\ [][OfferNext]_vars

\* the same trader, who fills an offer, sends it, and declines or cancels the
\* offers held
DeclineNext ==
    \/ \E o \in OfferObjs : AddItem(o)
    \/ \E o \in OfferObjs : SendStart(o)
    \/ \E o \in OfferObjs : SendRespond(o)
    \/ \E o \in OfferObjs : SendFinish(o)
    \/ \E o \in OfferObjs : Decline(o)
    \/ \E o \in OfferObjs : DeclineSettle(o)
    \/ LoadDone
    \/ FetchDone
    \/ SaveDone

DeclineSpec == OfferInit /\ [][DeclineNext]_vars

\* the same trader, who accepts the offers held
AcceptNext ==
    \/ \E o \in OfferObjs, skipStateUpdate \in BOOLEAN : Accept(o, skipStateUpdate)
    \/ \E o \in OfferObjs : AcceptRespond(o)
    \/ \E o \in OfferObjs : UpdateSettle(o)
    \/ LoadDone
    \/ FetchDone
    \/ SaveDone

AcceptSpec == OfferInit /\ [][AcceptNext]_vars

(***************************************************************************)
(* Properties                                                              *)
(***************************************************************************)
\* a step in which the tick in flight runs its finally block
TickEnds == tick.pc # "idle" /\ tick'.pc = "idle"

\* a step in which send() of offer o, having parsed a response, returns a state
SendReturns(o) ==
    /\ offers[o].pc = "json"
    /\ offers'[o].pc = "idle"
    /\ offers'[o].result \in {"Active", "CreatedNeedsConfirmation"}

\* the events named name about offer id, and the offer-change events
EventsOf(ev, name, id) == {i \in Named(ev, name) : ev[i][2] = id}
ChangeEvents(ev) == Named(ev, "sentOfferChanged") \cup Named(ev, "receivedOfferChanged")

\* C1: when a tick that walked a response ends, every sent (received) offer of
\* the response that is not glitched and whose record held a different state
\* has exactly one sentOfferChanged (receivedOfferChanged) event in that tick,
\* carrying the recorded state, and pollData holds the state reported.
C1_ChangeEventOncePerTransition ==
    [][(TickEnds /\ walk'.done) =>
          /\ \A p \in walk'.changedSent :
                /\ Cardinality(EventsOf(tickEv', "sentOfferChanged", p[1])) = 1
                /\ Count(tickEv', EvPrev("sentOfferChanged", p[1], p[2])) = 1
                /\ Has(pollData'.sent, p[1])
                /\ pollData'.sent[p[1]] = remote'[p[1]].state
          /\ \A p \in walk'.changedReceived :
                /\ Cardinality(EventsOf(tickEv', "receivedOfferChanged", p[1])) = 1
                /\ Count(tickEv', EvPrev("receivedOfferChanged", p[1], p[2])) = 1
                /\ Has(pollData'.received, p[1])
                /\ pollData'.received[p[1]] = remote'[p[1]].state]_vars

\* a tick has ended whose walk found a sent offer in a state other than the one
\* recorded
C1_Witness ==
    /\ tick.pc = "idle"
    /\ walk.done
    /\ \E p \in walk.changedSent : remote[p[1]].state # p[2]

\* C2, as stated: a tick that walks the same response as the walk before posts
\* no offer-change event, and no sentOfferChanged is posted twice for the same
\* <<id, previous state, current state>>.
C2_AsStated ==
    /\ (walk.done /\ walk.same) => ChangeEvents(tickEv) = {}
    /\ ~hist.dup

\* C2, amended: a tick that walks the same response as the walk before posts no
\* offer-change event unless a send() recorded an offer in pollData.sent in
\* between; and every sentOfferChanged posted is for a record that held the
\* previous state and holds the reported, different, state afterwards, so that
\* a triple comes again only after the record went back to its previous state.
C2_NoChangeEventWithoutChange ==
    /\ [](walk.done /\ walk.same /\ ~walk.sendBetween => ChangeEvents(tickEv) = {})
    /\ [][\A i \in Named(tickEv', "sentOfferChanged") \ Named(tickEv, "sentOfferChanged") :
             LET id == tickEv'[i][2]
                 prev == tickEv'[i][3]
             IN  /\ Has(pollData.sent, id)
                 /\ pollData.sent[id] = prev
                 /\ remote'[id] # Absent
                 /\ remote'[id].state # prev
                 /\ pollData'.sent[id] = remote'[id].state]_vars

\* a transition was posted, and a later tick walked the response again that
\* reported it, with no send() in between
C2_Witness ==
    /\ walk.done
    /\ walk.same
    /\ ~walk.sendBetween
    /\ \E t \in hist.triples : remote[t[1]] # Absent /\ remote[t[1]].state = t[3]

\* C3: at most one doPoll() is between the polling guard and its finally block;
\* a doPoll() called meanwhile returns without touching the tick, pollData or
\* the events; the finally block clears the polling flag.
C3_SingleFlight ==
    /\ [](inflight <= 1 /\ (polling <=> inflight = 1) /\ (polling <=> tick.pc # "idle"))
    /\ [][(calls' # calls /\ polling) =>
             UNCHANGED <<pollData, remote, tick, tickEv, walk, polling, defferedPoll,
                         lastPoll, loadedPollData>>]_vars
    /\ [][TickEnds => ~polling']_vars

\* a doPoll() has returned at the guard and the tick it met is still in flight
C3_Witness == hist.skipped /\ polling /\ tick.pc = "fetch"

\* C4, as stated: stop() returns only when no tick is in flight, and once it
\* has returned no tick started by a timer armed earlier reaches the remote
\* (until start() is called).
C4_StopQuiesces ==
    /\ [][(stopCall # "returned" /\ stopCall' = "returned") => ~polling']_vars
    /\ [](stopCall = "returned" => ~(tick.src = "timer" /\ tick.pc \in {"fetch", "save"}))

\* C5, as stated: no unknownOfferSent is posted for the id of an offer that
\* this library's send() created.
C5_NoUnknownForOwnSend ==
    \A o \in OfferObjs : offers[o].id # NoId => offers[o].id \notin hist.unknownSent

\* C6: a walk made while pendingSendOffersCount > 0 posts no unknownOfferSent
\* for the sent offers of the response that have no record.
C6_PendingSendSuppressesUnknown ==
    (walk.done /\ walk.pending > 0) =>
        \A id \in walk.unknown : EventsOf(tickEv, "unknownOfferSent", id) = {}

\* a tick walked a response listing a sent offer without record while a send()
\* was awaiting its fetch
C6_Witness == walk.done /\ walk.pending > 0 /\ walk.unknown # {}

\* C7, as stated: when send() returns for a response with a tradeofferid X and
\* no confirmation requirement, pollData holds sent[X] = Active and a
\* timestamps[X].
C7_SendRecordsStateAndTime ==
    [][\A o \in OfferObjs :
          (/\ SendReturns(o)
           /\ offers'[o].resp.tradeofferid # NoId
           /\ ~offers'[o].resp.mobile
           /\ ~offers'[o].resp.email) =>
             LET X == offers'[o].resp.tradeofferid
             IN  /\ Has(pollData'.sent, X)
                 /\ pollData'.sent[X] = "Active"
                 /\ Has(pollData'.timestamps, X)]_vars

\* C8, as stated: every id recorded in pollData.sent or pollData.received has
\* an entry in pollData.timestamps.
C8_TimestampForEveryRecord ==
    (DOMAIN pollData.sent) \cup (DOMAIN pollData.received) \subseteq DOMAIN pollData.timestamps

\* C9, as stated: when send() returns for a response with a tradeofferid X and
\* needs_mobile_confirmation, the offer is CreatedNeedsConfirmation, to be
\* confirmed by the mobile app, and pollData holds
\* sent[X] = CreatedNeedsConfirmation.
C9_MobileConfirmationRecorded ==
    [][\A o \in OfferObjs :
          (/\ SendReturns(o)
           /\ offers'[o].resp.tradeofferid # NoId
           /\ offers'[o].resp.mobile) =>
             LET X == offers'[o].resp.tradeofferid
             IN  /\ offers'[o].state = "CreatedNeedsConfirmation"
                 /\ offers'[o].confirmationMethod = "MobileApp"
                 /\ Has(pollData'.sent, X)
                 /\ pollData'.sent[X] = "CreatedNeedsConfirmation"]_vars

\* C10, as stated: a send() that returns a state has set the offer's id to the
\* id the server assigned, and the id is set by nothing else.
C10_SendSetsIdOrFails ==
    [][\A o \in OfferObjs :
          /\ SendReturns(o) =>
                (offers'[o].id # NoId /\ offers'[o].id = offers'[o].resp.tradeofferid)
          /\ offers'[o].id # offers[o].id => SendReturns(o)]_vars

\* a tick's getOffers has answered and the walk has run (remote' is the response)
Walked == tick.pc = "fetch" /\ walk'.done

Record(pd, id) ==
    <<IF Has(pd.sent, id) THEN pd.sent[id] ELSE "none",
      IF Has(pd.received, id) THEN pd.received[id] ELSE "none",
      IF Has(pd.timestamps, id) THEN pd.timestamps[id] ELSE 0>>

GlitchSeen(resp, pd) ==
    \/ \E id \in RecvIds : resp[id] # Absent /\ isGlitched(resp[id], cfg.getDescriptions)
    \/ \E id \in SentIds :
          /\ resp[id] # Absent
          /\ Has(pd.sent, id)
          /\ pd.sent[id] # resp[id].state
          /\ isGlitched(resp[id], cfg.getDescriptions)

Stale(pd, m, id) ==
    /\ m[id] \notin NON_TERMINAL_OFFER_STATES
    /\ Has(pd.timestamps, id)
    /\ pd.timestamps[id] < pd.offersSince - HistoricalBuffer

ObservedActive(resp, pd) ==
    {id \in SentIds : \/ resp[id] # Absent /\ resp[id].state = "Active"
                      \/ Has(pd.sent, id) /\ pd.sent[id] = "Active"}

\* the ids of a sequence of <<id, why>> with the given why
Started(started, why) == {started[i][1] : i \in {j \in 1..Len(started) : started[j][2] = why}}
StartedCount(started, id, why) ==
    Cardinality({i \in 1..Len(started) : started[i] = <<id, why>>})

\* C15: with cancelOfferCount = K, a walk that observes n > K distinct Active
\* sent offers has its quota trim pick n - K distinct offers, each once: those
\* with the smallest timestamps in the store
C15_QuotaTrimPicksOldest ==
    [][(Walked /\ cfg.cancelOfferCount # 0) =>
         LET active == ObservedActive(remote', pollData')
             n == Cardinality(active)
             picked == {walk'.targets[i] : i \in 1..Len(walk'.targets)}
         IN  n > cfg.cancelOfferCount =>
                /\ Len(walk'.targets) = n - cfg.cancelOfferCount
                /\ Cardinality(picked) = n - cfg.cancelOfferCount
                /\ picked \subseteq active
                /\ \A p \in picked : \A q \in active \ picked :
                      pollData'.timestamps[p] <= pollData'.timestamps[q]]_vars

\* C16: the quota trim starts no cancellation of an offer whose age, the time
\* of the walk less its timestamp in the store, both in milliseconds, is below
\* cancelOfferCountMinAge
C16_QuotaTrimSparesYoungOffers ==
    [][(Walked /\ cfg.cancelOfferCountMinAge # 0) =>
         \A id \in Started(walk'.started, "cancelOfferCount") :
            now - pollData'.timestamps[id] * 1000 >= cfg.cancelOfferCountMinAge]_vars

\* the time after which offer id is cancelled: the store's entry, else the
\* manager's; 0 is not set
Effective(times, id, default) == IF Has(times, id) THEN times[id] ELSE default

\* offer O, returned at time nowMs, is due for the cancellation by age
DueActive(O, nowMs, cancelTime) ==
    O.state = "Active" /\ cancelTime > 0 /\ nowMs - O.updated * 1000 >= cancelTime
DuePending(O, nowMs, pendingCancelTime) ==
    /\ O.state = "CreatedNeedsConfirmation"
    /\ pendingCancelTime > 0
    /\ nowMs - O.created * 1000 >= pendingCancelTime

AgeCancelSettles(op) ==
    /\ op.pc = "cancel"
    /\ op.why \in {"cancelTime", "pending"}
    /\ cancelOps' = cancelOps (-) SetToBag({op})

\* C18: when a cancel() started for the age of offer A resolves, cancelTimes[A]
\* and pendingCancelTimes[A] are gone and exactly one event is posted,
\* sentOfferCanceled(A, "cancelTime") for an Active offer and
\* sentPendingOfferCanceled(A) for an unconfirmed one; when it rejects, neither
\* event is posted; and nothing else posts them
C18_CancelClearsTimesAndPostsOnce ==
    [][/\ \A op \in BagToSet(cancelOps) :
            AgeCancelSettles(op) =>
               IF calls' # calls
               THEN /\ ~Has(pollData'.cancelTimes, op.id)
                    /\ ~Has(pollData'.pendingCancelTimes, op.id)
                    /\ cancelEv' = <<IF op.why = "pending"
                                      THEN <<"sentPendingOfferCanceled", op.id, "-">>
                                      ELSE <<"sentOfferCanceled", op.id, "cancelTime">>>>
               ELSE Named(cancelEv', "sentOfferCanceled")
                       \cup Named(cancelEv', "sentPendingOfferCanceled") = {}
       /\ (/\ cancelEv' # cancelEv
           /\ Named(cancelEv', "sentOfferCanceled")
                 \cup Named(cancelEv', "sentPendingOfferCanceled") # {}) =>
             \E op \in BagToSet(cancelOps) :
                /\ op.pc = "cancel"
                /\ cancelOps' = cancelOps (-) SetToBag({op})
                /\ calls' # calls]_vars

\* the automatic cancellation of X resolved: the event is posted and the times
\* the store held for X are gone, those of F are still there
C18_Witness ==
    /\ cancelEv \in {<<<<"sentOfferCanceled", "X", "cancelTime">>>>,
                      <<<<"sentPendingOfferCanceled", "X", "-">>>>}
    /\ ~Has(pollData.cancelTimes, "X")
    /\ ~Has(pollData.pendingCancelTimes, "X")
    /\ Has(pollData.cancelTimes, "F")

\* C19: when a cancel() started for an offer's age rejects, the tick in flight
\* goes on, no pollFailure and no cancel event is posted, the store (states,
\* timestamps, cancel times) stays as it is, and the next walk that finds the
\* offer due calls cancel() again
C19_FailedCancelChangesNothing ==
    [][/\ \A op \in BagToSet(cancelOps) :
            (AgeCancelSettles(op) /\ calls' = calls) =>
               /\ pollData' = pollData
               /\ tick' = tick
               /\ polling' = polling
               /\ tickEv' = tickEv
               /\ cancelEv' = <<<<"debug", op.id, op.why>>>>
       /\ (Walked /\ cancelEv # <<>> /\ cancelEv[1][1] = "debug") =>
             LET id == cancelEv[1][2]
                 O == remote'[id]
             IN  /\ (O # Absent /\ DueActive(O, now, Effective(pollData.cancelTimes, id,
                                                                cfg.cancelTime)))
                       => StartedCount(walk'.started, id, "cancelTime") = 1
                 /\ (O # Absent /\ DuePending(O, now,
                                               Effective(pollData.pendingCancelTimes, id,
                                                         cfg.pendingCancelTime)))
                       => StartedCount(walk'.started, id, "pending") = 1]_vars

\* a cancel() of X rejected, the store still holds the times of X, and the walk
\* after it called cancel() on X again
C19_Witness ==
    /\ walk.done
    /\ walk.evBefore # <<>>
    /\ walk.evBefore[1][1] = "debug"
    /\ walk.evBefore[1][2] = "X"
    /\ Has(pollData.cancelTimes, "X")
    /\ \E why \in {"cancelTime", "pending"} : StartedCount(walk.started, "X", why) = 1

\* C20: a call of getConfirmations made while another is in flight sends no
\* request of its own: it awaits the one in flight, and when that one has
\* fetched the list and returned, the conf endpoint has been asked once and
\* both calls find the same list on return
C20_OverlappingCallsShareOneRequest ==
    \A c \in Callers :
       (conf.awaits[c] # "undefined" /\ conf.pc[conf.awaits[c]] = "returned") =>
          /\ c \notin conf.requested
          /\ conf.pc[c] = "returned" => conf.observed[c] = conf.observed[conf.awaits[c]]

\* C21: however many calls of getConfirmations overlap (three included), at
\* most one request for the confirmation list is in flight at any instant, and
\* no call whose own request was answered and parsed ends with an error
C21_LatchSerialisesAnyNumberOfCalls ==
    /\ Cardinality({c \in Callers : conf.pc[c] = "fetching"}) <= 1
    /\ \A c \in conf.succeeded : conf.pc[c] # "threw"

\* C22: two key derivations that follow one another within the same second of
\* the clock are made with different times, also when localOffset was reset
\* to 0 between them
C22_BackToBackDerivationsDiffer ==
    \A i \in 1..(Len(conf.derived) - 1) :
       conf.derived[i].sec = conf.derived[i + 1].sec =>
          conf.derived[i].t # conf.derived[i + 1].t

\* two derivations within one second with the reset of localOffset between them
C22_Witness ==
    \E i \in 1..(Len(conf.derived) - 1) :
       /\ conf.derived[i].sec = conf.derived[i + 1].sec
       /\ conf.derived[i].t > conf.derived[i].sec + MaxLocalOffset - 1
       /\ conf.derived[i + 1].t = conf.derived[i + 1].sec

\* C23: whatever the order of the allow and cancel operations and however the
\* clock advances between them, no two of their requests carry the same time
\* and the same tag
C23_OperationsUseDistinctTimeAndTag ==
    \A i, j \in 1..Len(conf.sent) :
       (i # j /\ conf.sent[i].tag \in {"allow", "cancel"}) =>
          ~(conf.sent[i].t = conf.sent[j].t /\ conf.sent[i].tag = conf.sent[j].tag)

\* the allow and cancel requests the call c sent
OperationsSentBy(c) ==
    {i \in 1..Len(conf.sent) : conf.sent[i].by = c /\ conf.sent[i].tag \in {"allow", "cancel"}}

\* C24: allowOffer / cancelOffer fetch the confirmation list only when
\* lastConfirmationList held no confirmation of the offer at the call, fetch
\* it at most once, and when the list fetched holds none either, they fail with
\* the not-in-list error and send no allow or cancel request
C24_RespondFetchesOnceThenFails ==
    \A c \in Callers :
       conf.call[c].kind = "respond" =>
          /\ conf.fetches[c] >= 1 => ~conf.call[c].found
          /\ conf.fetches[c] <= 1
          /\ (c \in conf.returned
                /\ ~Found(conf.observed[c], conf.call[c].offerid)) =>
                /\ conf.pc[c] = "threw"
                /\ conf.error[c] = "NotFound"
                /\ OperationsSentBy(c) = {}

\* a call that fetched the list once, found no confirmation of its offer in it
\* and failed
C24_Witness ==
    \E c \in Callers :
       /\ conf.call[c].kind = "respond"
       /\ conf.fetches[c] = 1
       /\ c \in conf.returned
       /\ ~Found(conf.observed[c], conf.call[c].offerid)
       /\ conf.error[c] = "NotFound"

\* the step in which getOffers throws: the tick ends without a walk
FetchFails == tick.pc = "fetch" /\ tick'.pc = "idle" /\ ~walk'.done

\* C25: when the fetch of a tick fails, the tick posts pollFailure once and no
\* pollSuccess, leaves pollData as it was, clears the polling flag, and arms
\* the timer again with the interval when the poller is not stopped and the
\* interval is not negative (and only then); this holds for every failure,
\* whatever came before it
C25_FailedFetchKeepsStoreAndRearms ==
    [][FetchFails =>
         /\ tickEv' = <<Ev("pollFailure", "-")>>
         /\ pollData' = pollData
         /\ polling' = FALSE
         /\ inflight' = 0
         /\ timers' = IF ~stopped /\ cfg.interval >= 0
                       THEN Append(timers, now + cfg.interval)
                       ELSE timers]_vars

\* a tick that was not the first failed at its fetch and the timer is armed
C25_Witness ==
    /\ calls >= 2
    /\ walk.walked
    /\ tick.pc = "idle"
    /\ tickEv = <<Ev("pollFailure", "-")>>
    /\ ~walk.done
    /\ ~polling
    /\ ~stopped
    /\ Len(timers) >= 1
    /\ timers[Len(timers)] = now + cfg.interval

\* decline() or cancel() is called on the offer o; its fetch settles
DeclineCalled(o) == offers[o].pc = "idle" /\ offers'[o].declined # offers[o].declined
DeclineSettles(o) == offers[o].pc = "declining" /\ offers'[o].pc = "idle"

\* C26: decline() / cancel() on an offer without an id, or in a state other
\* than Active and CreatedNeedsConfirmation, fails without a request and
\* leaves the offer as it was; when the request succeeds the offer becomes
\* Canceled if this account made it and Declined if not, and doPoll() is
\* called; when the request fails the state stays
C26_DeclineChecksThenSetsState ==
    [][\A o \in OfferObjs :
          /\ (DeclineCalled(o)
                /\ (offers[o].id = NoId
                    \/ offers[o].state \notin {"Active", "CreatedNeedsConfirmation"})) =>
                offers'[o] = [offers[o] EXCEPT
                                !.declined = [status |-> "threw", endpoint |-> "none"]]
          /\ (DeclineSettles(o) /\ offers'[o].declined.status = "done") =>
                /\ offers'[o].state = IF offers[o].ours THEN "Canceled" ELSE "Declined"
                /\ calls' = calls + 1
          /\ (DeclineSettles(o) /\ offers'[o].declined.status # "done") =>
                offers'[o].state = offers[o].state]_vars

\* the offer this account made and sent was cancelled by decline()
C26_Witness ==
    \E o \in OfferObjs :
       /\ offers[o].id = IdOfSend(o)
       /\ offers[o].ours
       /\ offers[o].declined = [status |-> "done", endpoint |-> "CancelTradeOffer"]
       /\ offers[o].state = "Canceled"

\* a mutator is called on the offer o (a call that repeats the last one with
\* the same outcome leaves no trace)
MutatorCalled(o) == offers'[o].mutation # offers[o].mutation

\* the mutators leave the offer o as it was
ContentsKept(o) ==
    /\ offers'[o].message = offers[o].message
    /\ offers'[o].token = offers[o].token
    /\ offers'[o].itemsToGive = offers[o].itemsToGive
    /\ offers'[o].itemsToReceive = offers[o].itemsToReceive

\* C27 as stated: once the id of an offer is set, every call of setMessage,
\* setToken and of the mutators of the items, single or bulk, fails and leaves
\* message, token and both lists of items unchanged
C27_AsStated ==
    [][\A o \in OfferObjs :
          (offers[o].id # NoId /\ MutatorCalled(o)) =>
             /\ offers'[o].mutation.threw
             /\ ContentsKept(o)]_vars

\* C27, amended: once the id of an offer is set, every call of a mutator
\* leaves message, token and both lists of items unchanged, and it fails
\* unless it is addMyItems, removeMyItems or addTheirItems with an empty list,
\* which return normally
C27_SentOfferIsNotMutated ==
    [][\A o \in OfferObjs :
          (offers[o].id # NoId /\ MutatorCalled(o)) =>
             /\ ContentsKept(o)
             /\ offers'[o].mutation.threw <=>
                   ~(/\ offers'[o].mutation.method \in BulkMethods \ {"removeTheirItems"}
                     /\ offers'[o].mutation.items = <<>>)]_vars

\* an offer that was sent, on which a bulk mutator called with items failed
C27_Witness ==
    \E o \in OfferObjs :
       /\ offers[o].id = IdOfSend(o)
       /\ offers[o].result \in {"Active", "CreatedNeedsConfirmation"}
       /\ offers[o].mutation.method = "addTheirItems"
       /\ offers[o].mutation.items # <<>>
       /\ offers[o].mutation.threw
       /\ offers[o].itemsToReceive = <<>>

(***************************************************************************)
(* data_poller.ts: offers that stay Active over many ticks                 *)
(***************************************************************************)
\* an owner whose account has offers made long before the run, sent by other
\* means and received, which stay Active
StaleInit ==
    InitOf({Config(-1, FALSE, TRUE, "stale", "owner"),
            Config(-1, TRUE, TRUE, "stale", "owner")},
           {NewConfirmationService}, {NewOffer})

StaleNext ==
    \/ RequestPoll
    \/ LoadDone
    \/ FetchDone
    \/ SaveDone
    \/ Advance

StaleSpec == StaleInit /\ [][StaleNext]_vars

(***************************************************************************)
(* data_poller.ts, trade_offer.ts: send() before the first load            *)
(***************************************************************************)
\* a trader with load and save callbacks, whose offer carries a cancelTime and
\* a pendingCancelTime of its own
LoadInit ==
    InitOf({Config(-1, TRUE, TRUE, "reload", "trader")}, {NewConfirmationService},
           {[NewOffer EXCEPT !.cancelTime = AgeLimit, !.pendingCancelTime = YoungLimit]})

LoadNext ==
    \/ \E o \in OfferObjs : AddItem(o)
    \/ \E o \in OfferObjs : SendStart(o)
    \/ \E o \in OfferObjs : SendRespond(o)
    \/ \E o \in OfferObjs : SendFinish(o)
    \/ RequestPoll
    \/ LoadDone
    \/ FetchDone
    \/ SaveDone

LoadSpec == LoadInit /\ [][LoadNext]_vars

(***************************************************************************)
(* data_poller.ts: the rate floor of doPoll                                *)
(***************************************************************************)
\* an operator whose poller runs with a long interval: within the time a run
\* covers, the timers that come due are those armed by rate-limited ticks
RateInit ==
    InitOf({Config(LongInterval, FALSE, TRUE, "quiet", "operator")},
           {NewConfirmationService}, {NewOffer})

RateNext ==
    \/ Start
    \/ RequestPoll
    \/ TimerFire
    \/ LoadDone
    \/ FetchDone
    \/ SaveDone
    \/ Advance

RateSpec == RateInit /\ [][RateNext]_vars

\* the timer i comes due and starts a tick; it was armed by a rate-limited
\* tick, since a periodic one is due cfg.interval after a tick ended
RescheduledTimerFires(i) ==
    /\ tick.pc = "idle"
    /\ tick'.pc = "load"
    /\ tick'.src = "timer"
    /\ timers' = RemoveAt(timers, i)
    /\ timers[i] < StartMs + cfg.interval

\* C28: with the poller not stopped and interval >= 0, the tick fired by the
\* timer that a rate-limited tick armed with delay miminumPollInterval -
\* timeSinceLastPoll is not itself rate-limited, so that a tick which fetches
\* follows every rate-limited tick
C28_RescheduledTickIsNotRateLimited ==
    [][\A i \in 1..Len(timers) :
          RescheduledTimerFires(i) => ~tick'.doingPollTooFast]_vars

\* C30: at any time at most one poll timer is armed, whether the ticks are
\* fired by the timer, requested by decline(), accept() or the user, or
\* started by a repeated start()
C30_AtMostOneTimerArmed == Len(timers) <= 1

\* the events a tick posts when its response arrives
PostedNow ==
    IF tick.pc = "fetch" THEN SubSeq(tickEv', Len(tickEv) + 1, Len(tickEv')) ELSE <<>>

\* C29: newOffer for a received offer, and unknownOfferSent for a sent one,
\* are posted at most once per offer id over the ticks that get a response,
\* however old the offer is against the cutoff: the event is posted only for
\* an offer without record, once, together with the record, and a record
\* stays
C29_NewOfferNoticedOnce ==
    [][\A id \in SentIds \cup RecvIds :
          /\ Has(pollData.received, id) =>
                Has(pollData'.received, id) /\ Count(PostedNow, Ev("newOffer", id)) = 0
          /\ Has(pollData.sent, id) =>
                Has(pollData'.sent, id) /\ Count(PostedNow, Ev("unknownOfferSent", id)) = 0
          /\ Count(PostedNow, Ev("newOffer", id)) > 0 =>
                Has(pollData'.received, id) /\ Count(PostedNow, Ev("newOffer", id)) = 1
          /\ Count(PostedNow, Ev("unknownOfferSent", id)) > 0 =>
                Has(pollData'.sent, id)
                /\ Count(PostedNow, Ev("unknownOfferSent", id)) = 1]_vars

\* a second response in a row lists a received and a sent offer, Active and
\* older than the cutoff less HistoricalBuffer; both are on record and the
\* tick posted neither event
C29_Witness ==
    /\ walk.done /\ walk.same
    /\ \A id \in {"F", "R"} :
          /\ remote[id] # Absent
          /\ remote[id].state = "Active"
          /\ remote[id].updated < pollData.offersSince - HistoricalBuffer
    /\ Has(pollData.received, "R") /\ Has(pollData.sent, "F")
    /\ Named(tickEv, "newOffer") = {} /\ Named(tickEv, "unknownOfferSent") = {}

\* C31: within one tick a cancellation is started at most once per offer id,
\* by the age policies and the quota trim together
C31_OneCancelPerOfferPerTick ==
    \A i, j \in 1..Len(walk.started) :
       i # j => walk.started[i][1] # walk.started[j][1]

\* tryLoadPollData calls the load callback, and the callback settles
LoadCalled == tick.pc = "load" /\ tick'.pc # "load" /\ ~loadedPollData /\ cfg.persist

\* the entries of the map m are in the map n, with the same values
Kept(m, n) == \A id \in DOMAIN m : Has(n, id) /\ n[id] = m[id]

\* C32: a cancelTime or pendingCancelTime that send() recorded in pollData
\* before the first load is in pollData, with the same value, after the load
C32_LoadKeepsCancelTimes ==
    [][LoadCalled =>
          /\ Kept(pollData.cancelTimes, pollData'.cancelTimes)
          /\ Kept(pollData.pendingCancelTimes, pollData'.pendingCancelTimes)]_vars

\* the entries of the loaded map l that the map m lacks are in the map n
OnlyLoadedKept(l, m, n) ==
    \A id \in (DOMAIN l) \ (DOMAIN m) : Has(n, id) /\ n[id] = l[id]

\* C33: the load callback is called at most once, whatever it does: it is
\* called only while loadedPollData is unset, its call sets loadedPollData,
\* and loadedPollData stays set.  After a load that returned data, sent,
\* received and timestamps hold every entry they held in memory with its
\* value, and every entry of the loaded data that memory lacked
C33_LoadOnceAndMerge ==
    [][/\ loadedPollData => loadedPollData'
       /\ LoadCalled =>
             /\ loadedPollData'
             /\ \/ pollData' = pollData
                \/ LET l == LoadedData(cfg.universe) IN
                   /\ Kept(pollData.sent, pollData'.sent)
                   /\ Kept(pollData.received, pollData'.received)
                   /\ Kept(pollData.timestamps, pollData'.timestamps)
                   /\ OnlyLoadedKept(l.sent, pollData.sent, pollData'.sent)
                   /\ OnlyLoadedKept(l.received, pollData.received, pollData'.received)
                   /\ OnlyLoadedKept(l.timestamps, pollData.timestamps,
                                     pollData'.timestamps)
                   /\ pollData'.cancelTimes = l.cancelTimes
                   /\ pollData'.pendingCancelTimes = l.pendingCancelTimes
                   /\ pollData'.offersSince = l.offersSince]_vars

\* the load returned data after send() had recorded its offer: the record of
\* send() stands against the loaded one, next to the entries only loaded
C33_Witness ==
    /\ loadedPollData
    /\ tick.pc = "fetch"
    /\ \E o \in OfferObjs :
          /\ offers[o].id = IdOfSend(o)
          /\ Has(pollData.sent, offers[o].id)
          /\ pollData.sent[offers[o].id] = "Active"
          /\ LoadedData(cfg.universe).sent[offers[o].id] # "Active"
    /\ Has(pollData.sent, "F") /\ Has(pollData.received, "R")
    /\ pollData.offersSince = LoadedData(cfg.universe).offersSince

\* what the five maps of the store pd hold for the offer id
Entry(pd, id) ==
    <<IF Has(pd.sent, id) THEN pd.sent[id] ELSE "none",
      IF Has(pd.received, id) THEN pd.received[id] ELSE "none",
      IF Has(pd.timestamps, id) THEN pd.timestamps[id] ELSE 0,
      IF Has(pd.cancelTimes, id) THEN pd.cancelTimes[id] ELSE 0,
      IF Has(pd.pendingCancelTimes, id) THEN pd.pendingCancelTimes[id] ELSE 0>>

\* the offer id is recorded in pd in a terminal state, with a timestamp below
\* offersSince - 1800
Prunable(pd, id) ==
    /\ \/ Has(pd.sent, id) /\ pd.sent[id] \notin NON_TERMINAL_OFFER_STATES
       \/ Has(pd.received, id) /\ pd.received[id] \notin NON_TERMINAL_OFFER_STATES
    /\ Has(pd.timestamps, id)
    /\ pd.timestamps[id] < pd.offersSince - HistoricalBuffer

C35_CutoffBelowChangingOffers ==
    [][(Walked /\ ~walk'.glitched) =>
          /\ pollData'.offersSince <= tick.requestedAt
          /\ \A id \in DOMAIN remote' :
                (remote'[id] # Absent /\ remote'[id].state \in NON_TERMINAL_OFFER_STATES)
                   => pollData'.offersSince <= remote'[id].updated]_vars

\* a tick walked a response, none of its offers glitched, with an offer in a
\* non-terminal state updated more than 1800 s before the request: the cutoff
\* is at that offer
C35_Witness ==
    /\ walk.done
    /\ ~walk.glitched
    /\ polling = FALSE
    /\ \E id \in DOMAIN remote :
          /\ remote[id] # Absent
          /\ remote[id].state \in NON_TERMINAL_OFFER_STATES
          /\ remote[id].updated < FloorSec(lastPoll) - HistoricalBuffer
          /\ pollData.offersSince = remote[id].updated

\* a tick makes its getOffers request
FetchStarts == tick.pc = "load" /\ tick'.pc = "fetch"

\* C36: two getOffers requests of the poller are never made less than
\* miminumPollInterval apart, whether the ticks are fired by a timer, called
\* by start() or requested by the user
C36_FetchesAtLeastMinIntervalApart ==
    [][(FetchStarts /\ hist.fetchedAt # 0) =>
          now - hist.fetchedAt >= miminumPollInterval]_vars

\* a tick makes a getOffers request after an earlier tick made one and walked
\* its response
C36_Witness ==
    /\ tick.pc = "fetch"
    /\ walk.walked
    /\ hist.fetchedAt = now
    /\ hist.fetchedAt >= StartMs + miminumPollInterval

\* a send() call on the offer o ends with an exception: at its preconditions,
\* at its fetch, or on the response
SendFails(o) ==
    /\ offers'[o].result = "threw"
    /\ offers'[o].pc = "idle"
    /\ offers[o].result # "threw" \/ offers[o].pc # "idle"

\* C37: a send() that fails (id set already, no items, a status other than
\* 200, a body with strError, a fetch that threw, an unknown response) leaves
\* the id and the state of the offer, pollData and pendingSendOffersCount as
\* they were when it was called: the count is 0 when the call begins to wait,
\* id, state and pollData are untouched while it waits, and the failing step
\* changes none of them and leaves the count at 0
C37_FailedSendChangesNothing ==
    [][\A o \in OfferObjs :
          /\ (offers[o].pc = "idle" /\ offers'[o].pc = "fetch") =>
                pendingSendOffersCount = 0
          /\ offers'[o].pc \in {"fetch", "json"} =>
                /\ offers'[o].id = offers[o].id
                /\ offers'[o].state = offers[o].state
                /\ pollData' = pollData
          /\ SendFails(o) =>
                /\ offers'[o].id = offers[o].id
                /\ offers'[o].state = offers[o].state
                /\ pollData' = pollData
                /\ pendingSendOffersCount' = 0]_vars

\* a send() got a status other than 200, or a body with strError, and failed
C37_Witness ==
    \E o \in OfferObjs :
       /\ offers[o].pc = "idle"
       /\ offers[o].result = "threw"
       /\ offers[o].resp.kind \in {"status", "strError"}
       /\ offers[o].id = NoId
       /\ pendingSendOffersCount = 0

ConfCallFails(c) ==
    /\ conf.pc[c] \in {"key", "fetching"}
    /\ conf'.pc[c] = "threw"

\* C39: a call of getConfirmations that ends with an error leaves
\* lastConfirmationList as it was, and a call that ends without one has stored
\* the list it parsed
C39_FailedFetchKeepsList ==
    [][\A c \in Callers :
          /\ ConfCallFails(c) => conf'.lastConfirmationList = conf.lastConfirmationList
          /\ (conf.pc[c] = "fetching" /\ conf'.pc[c] = "returned") =>
                conf'.observed[c] = conf'.lastConfirmationList]_vars

\* accept() is called on the offer o; a call of accept() on o returns a value
AcceptCalled(o) == offers[o].pc = "idle" /\ offers'[o].accepted # offers[o].accepted
AcceptReturns(o) ==
    /\ offers[o].pc \in {"accepting", "updating"}
    /\ offers'[o].accepted.status = "done"

\* C40: accept(false) that succeeds returns "accepted", "pending" or "escrow"
\* by the offer update() fetched: "escrow" when it is InEscrow, "pending" when
\* it asks for a confirmation, "accepted" when it is Accepted; accept(true)
\* that succeeds returns "pending" when the body has a confirmation flag and
\* "accepted" when not; accept() on an offer without an id, not Active, or made
\* by this account fails without a request and leaves the offer as it was
C40_AcceptReturnsByRefreshedOffer ==
    [][\A o \in OfferObjs :
          /\ (AcceptReturns(o) /\ ~offers[o].accepted.skip) =>
                LET data == offers'[o].accepted.data
                    returned == offers'[o].accepted.returned
                IN  /\ returned \in {"accepted", "pending", "escrow"}
                    /\ (data.trade_offer_state = "InEscrow"
                          /\ data.confirmation_method = "None") => returned = "escrow"
                    /\ (data.trade_offer_state = "Active"
                          /\ data.confirmation_method # "None") => returned = "pending"
                    /\ (data.trade_offer_state = "Accepted"
                          /\ data.confirmation_method = "None") => returned = "accepted"
          /\ (AcceptReturns(o) /\ offers[o].accepted.skip) =>
                offers'[o].accepted.returned =
                   IF offers'[o].accepted.body.mobile \/ offers'[o].accepted.body.email
                   THEN "pending" ELSE "accepted"
          /\ (AcceptCalled(o)
                /\ (offers[o].id = NoId \/ offers[o].state # "Active" \/ offers[o].ours)) =>
                \E skip \in BOOLEAN :
                   offers'[o] = [offers[o] EXCEPT
                                   !.accepted = [NoAccept EXCEPT !.status = "threw",
                                                                 !.skip = skip]]]_vars

====
